---- MODULE Spec2Model ----
(***************************************************************************)
(* The coinbase puzzle of snarkVM (vm/compiler/src/coinbase_puzzle/mod.rs) *)
(* as a state machine: a Prover handle and a Verifier handle over the same *)
(* keys, an epoch challenge, the prover solutions a caller has collected,  *)
(* the coinbase solution it holds, and the latest call with its result.    *)
(*                                                                         *)
(* The scalar field Fr is the prime field of order FieldModulus.  G1 and   *)
(* G2 have the same prime order, so a group element is written as its      *)
(* discrete logarithm to the generator (G = 1, beta^i G = beta^i), and     *)
(* the pairing e(aG, bH) = e(G,H)^(ab) as the product a*b: this keeps the  *)
(* group laws and the pairing equation exactly.                            *)
(***************************************************************************)
EXTENDS Integers, Sequences, FiniteSets, TLC

(* ------------------------------ bounds ------------------------------ *)

\* Width, in bits, of the words that stand for the code's u64 (a u128 has twice this).
U64_BITS == 8
\* Nonces tried by the provers: 0 .. MaxNonce.
MaxNonce == 2

(* ------------------------- the scalar field ------------------------- *)

FieldModulus == 12289
\* A generator of the multiplicative group of the field.
FieldGenerator == 11
\* FieldModulus - 1 = 2^TwoAdicity * 3.
TwoAdicity == 12

fadd(a, b) == (a + b) % FieldModulus
fsub(a, b) == (a - b + FieldModulus) % FieldModulus
fmul(a, b) == (a * b) % FieldModulus

RECURSIVE fpow(_, _)
fpow(a, e) ==
    IF e = 0 THEN 1
    ELSE LET h == fpow(a, e \div 2)
             s == fmul(h, h)
         IN IF e % 2 = 1 THEN fmul(s, a) ELSE s

finv(a) == fpow(a, FieldModulus - 2)
fdiv(a, b) == fmul(a, finv(b))

(* --------------------------- polynomials ---------------------------- *)

\* A DensePolynomial is the sequence of its coefficients, lowest first.
RECURSIVE evaluate_from(_, _, _)
evaluate_from(poly, x, i) ==
    IF i > Len(poly) THEN 0
    ELSE fadd(poly[i], fmul(x, evaluate_from(poly, x, i + 1)))

\* DensePolynomial::evaluate (Horner).
evaluate(poly, x) == evaluate_from(poly, x, 1)

RECURSIVE poly_zero(_)
poly_zero(len) == IF len = 0 THEN <<>> ELSE <<0>> \o poly_zero(len - 1)

\* prover_polynomial *= challenge
RECURSIVE poly_scale_from(_, _, _)
poly_scale_from(poly, c, i) ==
    IF i > Len(poly) THEN <<>>
    ELSE <<fmul(poly[i], c)>> \o poly_scale_from(poly, c, i + 1)

poly_scale(poly, c) == poly_scale_from(poly, c, 1)

\* accumulator += &prover_polynomial (the shorter one is padded with zeros)
RECURSIVE poly_add_from(_, _, _)
poly_add_from(a, b, i) ==
    IF i > Len(a) /\ i > Len(b) THEN <<>>
    ELSE <<fadd(IF i <= Len(a) THEN a[i] ELSE 0, IF i <= Len(b) THEN b[i] ELSE 0)>>
         \o poly_add_from(a, b, i + 1)

poly_add(a, b) == poly_add_from(a, b, 1)

(* ------------------------ evaluation domain ------------------------- *)

RECURSIVE pow2_at_least(_, _)
pow2_at_least(k, p) == IF p >= k THEN p ELSE pow2_at_least(k, 2 * p)

\* usize::next_power_of_two
next_power_of_two(k) == pow2_at_least(k, 1)

RECURSIVE log2(_)
log2(m) == IF m <= 1 THEN 0 ELSE 1 + log2(m \div 2)

NoDomain == [size |-> 0, group_gen |-> 0]

\* EvaluationDomain::new(num_coeffs): the subgroup of the smallest power-of-two
\* size that is at least num_coeffs, none when the field has no such subgroup.
EvaluationDomain_new(num_coeffs) ==
    LET size == next_power_of_two(num_coeffs)
    IN IF log2(size) > TwoAdicity THEN NoDomain
       ELSE [size |-> size,
             group_gen |-> fpow(FieldGenerator, (FieldModulus - 1) \div size)]

RECURSIVE powers_from(_, _, _)
powers_from(x, cur, count) ==
    IF count = 0 THEN <<>> ELSE <<cur>> \o powers_from(x, fmul(cur, x), count - 1)

\* EvaluationDomain::elements: omega^0 .. omega^(size-1)
domain_elements(domain) == powers_from(domain.group_gen, 1, domain.size)

RECURSIVE evaluations_from(_, _, _)
evaluations_from(poly, elems, i) ==
    IF i > Len(elems) THEN <<>>
    ELSE <<evaluate(poly, elems[i])>> \o evaluations_from(poly, elems, i + 1)

\* EvaluationDomain::in_order_fft_with_pc: the polynomial's values on the domain,
\* in the order of the domain's elements.
in_order_fft_with_pc(elems, poly) == evaluations_from(poly, elems, 1)

\* EvaluationDomain::mul_polynomials_in_evaluation_domain: pointwise product.
RECURSIVE pointwise_mul_from(_, _, _)
pointwise_mul_from(a, b, i) ==
    IF i > Len(a) THEN <<>>
    ELSE <<fmul(a[i], b[i])>> \o pointwise_mul_from(a, b, i + 1)

mul_polynomials_in_evaluation_domain(a, b) == pointwise_mul_from(a, b, 1)

(* ------------------------------- KZG10 ------------------------------ *)

Hiding(proof) == proof.random_v # <<>>

RECURSIVE dot_from(_, _, _)
dot_from(a, b, i) ==
    IF i > Len(a) THEN 0
    ELSE fadd(fmul(a[i], b[i]), dot_from(a, b, i + 1))

\* VariableBase::msm(bases, scalars) = sum of scalars[i] * bases[i]
msm(bases, scalars) == dot_from(bases, scalars, 1)

\* KZG10::commit_lagrange without blinding: MSM(lagrange_basis, evaluations)
commit_lagrange(lagrange_basis, evaluations) == msm(lagrange_basis, evaluations)

\* The value at omega^j of the quotient (p(X) - v) / (X - omega^j) when the
\* opening point is the domain element omega^j itself.
RECURSIVE quotient_at_match(_, _, _, _, _)
quotient_at_match(elems, evals, v, j, i) ==
    IF i > Len(elems) THEN 0
    ELSE fadd(IF i = j THEN 0
              ELSE fdiv(fmul(fsub(evals[i], v), elems[i]),
                        fmul(elems[j], fsub(elems[j], elems[i]))),
              quotient_at_match(elems, evals, v, j, i + 1))

RECURSIVE quotient_evals_from(_, _, _, _, _)
quotient_evals_from(elems, evals, z, v, j) ==
    IF j > Len(elems) THEN <<>>
    ELSE <<IF elems[j] = z THEN quotient_at_match(elems, evals, v, j, 1)
           ELSE fdiv(fsub(evals[j], v), fsub(elems[j], z))>>
         \o quotient_evals_from(elems, evals, z, v, j + 1)

\* KZG10::open_lagrange: commit to the quotient on the Lagrange basis; no blinding.
open_lagrange(lagrange_basis, elems, evals, point, value) ==
    [w |-> commit_lagrange(lagrange_basis, quotient_evals_from(elems, evals, point, value, 1)),
     random_v |-> <<>>]

\* KZG10::check: e(C - v g - random_v gamma_g, h) = e(w, beta_h - z h)
KZG10_check(vk, commitment, point, value, proof) ==
    LET blind == IF Hiding(proof) THEN fmul(vk.gamma_g, proof.random_v[1]) ELSE 0
        inner == fsub(fsub(commitment, fmul(vk.g, value)), blind)
    IN fmul(inner, vk.h) = fmul(proof.w, fsub(vk.beta_h, fmul(point, vk.h)))

(* ------------------------- integers and bytes ----------------------- *)

\* u64::MAX, at the model's word width.
U64_MAX == 2^U64_BITS - 1

\* Byte k (from 0, the lowest) of an unsigned integer; the integers of the
\* model are below 256^4, so the bytes from the fourth on are zero.
byte_of(x, k) == IF k >= 4 THEN 0 ELSE (x \div 256^k) % 256

\* to_le_bytes / to_bytes_le of an unsigned integer: len bytes, lowest first.
to_bytes_le(x, len) == SubSeq([i \in 1 .. len |-> byte_of(x, i - 1)], 1, len)

\* The compressed encoding of a G1 element, little-endian.
commitment_to_bytes_le(commitment) == to_bytes_le(commitment, 2)

(* ------------------------------ hashing ----------------------------- *)

\* One round of the hash's permutation: x -> x^5 + 7 is one-to-one on the field.
permute(x) ==
    LET x2 == fmul(x, x)
        x4 == fmul(x2, x2)
    IN fadd(fmul(x4, x), 7)

\* The multiplier of the absorption step.
AbsorbRadix == 263

\* The transcript state after absorbing bytes[lo .. hi] one byte at a time, in
\* order: state -> AbsorbRadix * state + byte + 1 (the range is halved, and the
\* state after the first half computed before the second half starts, so that
\* the evaluation stays shallow).
RECURSIVE absorb_range(_, _, _, _)
absorb_range(state, bytes, lo, hi) ==
    IF lo > hi THEN state
    ELSE IF lo = hi THEN fadd(fmul(state, AbsorbRadix), bytes[lo] + 1)
    ELSE LET middle == absorb_range(state, bytes, lo, (lo + hi) \div 2)
         IN IF middle < 0 THEN middle
            ELSE absorb_range(middle, bytes, (lo + hi) \div 2 + 1, hi)

absorb(state, bytes, i) == absorb_range(state, bytes, i, Len(bytes))

\* The counter-th field element squeezed from a transcript state.
squeeze(state, counter) == permute(fadd(permute(state), counter + 1))

RECURSIVE squeeze_from(_, _, _)
squeeze_from(state, counter, count) ==
    IF count = 0 THEN <<>>
    ELSE <<squeeze(state, counter)>> \o squeeze_from(state, counter + 1, count - 1)

\* hash_to_polynomial(input, degree): degree + 1 coefficients hashed from the input.
hash_to_polynomial(input, degree) == squeeze_from(absorb(1, input, 1), 0, degree + 1)

\* hash_commitment(C): the compressed commitment hashed to one field element.
hash_commitment(commitment) == squeeze(absorb(2, commitment_to_bytes_le(commitment), 1), 0)

RECURSIVE absorb_commitments(_, _, _)
absorb_commitments(state, commitments, i) ==
    IF i > Len(commitments) THEN state
    ELSE absorb_commitments(absorb(state, commitment_to_bytes_le(commitments[i]), 1),
                            commitments, i + 1)

\* hash_commitments(C_1 .. C_k): absorb the commitments in order, squeeze k + 1 scalars.
hash_commitments(commitments) ==
    squeeze_from(absorb_commitments(3, commitments, 1), 0, Len(commitments) + 1)

\* One SHA-256: a digest of two bytes.
sha256(bytes) == to_bytes_le(squeeze(absorb(4, bytes, 1), 0), 2)

\* sha256d_to_u64: double SHA-256, the first bytes of the digest as a little-endian word.
sha256d_to_u64(bytes) ==
    LET digest == sha256(sha256(bytes))
    IN (digest[1] + 256 * digest[2]) % (U64_MAX + 1)

(* ------------------------------ results ----------------------------- *)

\* A call's outcome: Ok(value), Err(message) or a panic; ran lists the stages
\* of the function body that were executed, in order.
Ok(value, ran) == [tag |-> "Ok", val |-> value, ran |-> ran]
Err(message, ran) == [tag |-> "Err", val |-> message, ran |-> ran]
Panic(message, ran) == [tag |-> "Panic", val |-> message, ran |-> ran]

IsOk(r) == r.tag = "Ok"
IsErr(r) == r.tag = "Err"
IsOkWith(r, v) == r.tag = "Ok" /\ r.val = v
IsErrWith(r, m) == r.tag = "Err" /\ r.val = m

(* --------------------------- SRS and keys --------------------------- *)

\* KZG10::setup(max_degree, no degree bounds, non-hiding): the powers
\* beta^0 G .. beta^max_degree G, and h, beta h.
KZG10_setup(max_degree, beta) ==
    [powers_of_beta_g |-> powers_from(beta, 1, max_degree + 1), h |-> 1, beta_h |-> beta]

\* CoinbasePuzzle::setup
setup(config, beta) == KZG10_setup(2 * config.degree - 1, beta)

\* The domain trim builds for the product of two polynomials.
product_domain_of(degree) == EvaluationDomain_new(2 * degree - 1)

RECURSIVE ifft_entry(_, _, _, _)
ifft_entry(powers, w, cur, j) ==
    IF j > Len(powers) THEN 0
    ELSE fadd(fmul(powers[j], cur), ifft_entry(powers, w, fmul(cur, w), j + 1))

RECURSIVE ifft_from(_, _, _, _)
ifft_from(powers, omega_inv, size_inv, i) ==
    IF i >= Len(powers) THEN <<>>
    ELSE <<fmul(size_inv, ifft_entry(powers, fpow(omega_inv, i), 1, 1))>>
         \o ifft_from(powers, omega_inv, size_inv, i + 1)

\* UniversalParams::lagrange_basis(domain): the inverse NTT of the first
\* domain.size powers of beta G, that is L_i(beta) G for the domain.
srs_lagrange_basis(srs, domain) ==
    ifft_from(SubSeq(srs.powers_of_beta_g, 1, domain.size),
              finv(domain.group_gen), finv(domain.size % FieldModulus), 0)

\* CoinbasePuzzle::trim
trim(srs, config) ==
    LET num_coefficients == config.degree + 1
        product_num_coefficients == 2 * num_coefficients - 1
        product_domain == product_domain_of(config.degree)
    IN IF product_num_coefficients > Len(srs.powers_of_beta_g)
       THEN Err("powers_of_beta_g: out of range", <<>>)
       ELSE IF product_domain = NoDomain
       THEN Err("Invalid degree", <<>>)
       ELSE IF product_domain.size > Len(srs.powers_of_beta_g)
       THEN Err("lagrange_basis: out of range", <<>>)
       ELSE LET vk == [g |-> srs.powers_of_beta_g[1],
                       gamma_g |-> 0,
                       h |-> srs.h,
                       beta_h |-> srs.beta_h,
                       prepared_h |-> srs.h,
                       prepared_beta_h |-> srs.beta_h]
                pk == [powers_of_beta_g |-> SubSeq(srs.powers_of_beta_g, 1, product_num_coefficients),
                       product_domain |-> product_domain,
                       product_domain_elements |-> domain_elements(product_domain),
                       lagrange_basis_at_beta_g |-> srs_lagrange_basis(srs, product_domain),
                       fft_precomputation |-> domain_elements(product_domain),
                       verifying_key |-> vk]
            IN Ok([variant |-> "Prover", key |-> pk], <<>>)

\* CoinbasePuzzle::Verifier(Arc::new(vk))
Verifier(vk) == [variant |-> "Verifier", key |-> vk]

(* -------------------------- epoch challenge ------------------------- *)

\* EpochChallenge::new: the epoch polynomial is hashed from the epoch number and
\* the block hash, and evaluated over the product domain.
EpochChallenge_new(epoch_number, epoch_block_hash, degree) ==
    LET input == to_bytes_le(epoch_number, 4) \o to_bytes_le(epoch_block_hash, 32)
        epoch_polynomial == hash_to_polynomial(input, degree)
    IN [epoch_number |-> epoch_number,
        epoch_block_hash |-> epoch_block_hash,
        epoch_polynomial |-> epoch_polynomial,
        epoch_polynomial_evaluations |->
            in_order_fft_with_pc(domain_elements(product_domain_of(degree)), epoch_polynomial)]

\* EpochChallenge::degree
epoch_degree(epoch_challenge) == Len(epoch_challenge.epoch_polynomial) - 1

\* bytes[lo .. hi].copy_from_slice(src), with the 0-based half-open range of the
\* code; the slices written here have the lengths of their types.
copy_from_slice(bytes, lo, hi, src) ==
    SubSeq(bytes, 1, lo) \o src \o SubSeq(bytes, hi + 1, Len(bytes))

\* prover_polynomial_input with the address written four bytes too early.
prover_polynomial_input_shifted(epoch_challenge, address, nonce) ==
    LET bytes0 == [i \in 1 .. 76 |-> 0]
        bytes1 == copy_from_slice(bytes0, 0, 4, to_bytes_le(epoch_challenge.epoch_number, 4))
        bytes2 == copy_from_slice(bytes1, 4, 36, to_bytes_le(epoch_challenge.epoch_block_hash, 32))
        bytes3 == copy_from_slice(bytes2, 32, 64, to_bytes_le(address, 32))
    IN copy_from_slice(bytes3, 68, 76, to_bytes_le(nonce, 8))

\* The input of prover_polynomial: a buffer of 76 zero bytes, then the four
\* writes of the code in their order.
prover_polynomial_input(epoch_challenge, address, nonce) ==
    LET bytes0 == [i \in 1 .. 76 |-> 0]
        bytes1 == copy_from_slice(bytes0, 0, 4, to_bytes_le(epoch_challenge.epoch_number, 4))
        bytes2 == copy_from_slice(bytes1, 4, 36, to_bytes_le(epoch_challenge.epoch_block_hash, 32))
        bytes3 == copy_from_slice(bytes2, 36, 68, to_bytes_le(address, 32))
    IN copy_from_slice(bytes3, 68, 76, to_bytes_le(nonce, 8))

\* CoinbasePuzzle::prover_polynomial
prover_polynomial(epoch_challenge, address, nonce) ==
    hash_to_polynomial(prover_polynomial_input(epoch_challenge, address, nonce),
                       epoch_degree(epoch_challenge))

(* ----------------------------- solutions ---------------------------- *)

\* The crate's cap on the partial solutions of one coinbase solution (imported
\* at mod.rs:28; its value is set outside this file and is scaled down here).
MAX_PROVER_SOLUTIONS == 3

PartialSolution_new(address, nonce, commitment) ==
    [address |-> address, nonce |-> nonce, commitment |-> commitment]

ProverSolution_new(partial_solution, proof) ==
    [partial_solution |-> partial_solution, proof |-> proof]

CoinbaseSolution_new(partial_solutions, proof) ==
    [partial_solutions |-> partial_solutions, proof |-> proof]

\* The hash the difficulty rule divides by.
commitment_hash(commitment) == sha256d_to_u64(commitment_to_bytes_le(commitment))

\* PartialSolution::to_target: u64::MAX / sha256d_to_u64(commitment bytes); the
\* integer division is defined for a hash other than zero.
to_target(partial_solution) == U64_MAX \div commitment_hash(partial_solution.commitment)

RECURSIVE some_hash_is_zero(_, _)
some_hash_is_zero(partial_solutions, i) ==
    /\ i <= Len(partial_solutions)
    /\ \/ commitment_hash(partial_solutions[i].commitment) = 0
       \/ some_hash_is_zero(partial_solutions, i + 1)

\* CoinbaseSolution::to_cumulative_target: the targets summed in a u128.
RECURSIVE to_cumulative_target(_, _)
to_cumulative_target(partial_solutions, i) ==
    IF i > Len(partial_solutions) THEN 0
    ELSE (to_target(partial_solutions[i]) + to_cumulative_target(partial_solutions, i + 1))
         % ((U64_MAX + 1) * (U64_MAX + 1))

RECURSIVE commitments_of(_, _)
commitments_of(partial_solutions, i) ==
    IF i > Len(partial_solutions) THEN <<>>
    ELSE <<partial_solutions[i].commitment>> \o commitments_of(partial_solutions, i + 1)

(* ------------------------- parallel iteration ----------------------- *)

\* A schedule of a data-parallel loop over items 1 .. k: the places where the
\* index range is cut into chunks (a cut c separates item c from item c + 1),
\* and whether the chunks' results are combined first-to-last or last-to-first.
Sequential == [cuts |-> {}, reversed |-> FALSE]

\* The schedules of a loop over k items; with a single chunk there is one order.
Schedules(k) ==
    {schedule \in [cuts : SUBSET (1 .. (k - 1)), reversed : BOOLEAN] :
         schedule.cuts = {} => ~schedule.reversed}

RECURSIVE chunks_from(_, _, _, _)
chunks_from(k, cuts, lo, i) ==
    IF i > k THEN <<>>
    ELSE IF i = k \/ i \in cuts THEN <<<<lo, i>>>> \o chunks_from(k, cuts, i + 1, i + 1)
    ELSE chunks_from(k, cuts, lo, i + 1)

\* The chunks <<first, last>> of 1 .. k under a schedule, in index order.
chunks(k, schedule) == chunks_from(k, schedule.cuts, 1, 1)

RECURSIVE reverse(_)
reverse(seq) == IF seq = <<>> THEN <<>> ELSE reverse(Tail(seq)) \o <<Head(seq)>>

\* The order in which the chunks' results reach the final reduction.
arrival(results, schedule) == IF schedule.reversed THEN reverse(results) ELSE results

(* ------------------------------- prove ------------------------------ *)

\* CoinbasePuzzle::prove (release build: the debug assertion is compiled out).
prove(self, epoch_challenge, address, nonce) ==
    IF self.variant = "Verifier"
    THEN Err("Cannot prove the coinbase puzzle with a verifier", <<"role">>)
    ELSE
    LET pk == self.key
        polynomial == prover_polynomial(epoch_challenge, address, nonce)
        polynomial_evaluations == in_order_fft_with_pc(pk.fft_precomputation, polynomial)
        product_evaluations ==
            mul_polynomials_in_evaluation_domain(
                polynomial_evaluations, epoch_challenge.epoch_polynomial_evaluations)
        commitment == commit_lagrange(pk.lagrange_basis_at_beta_g, product_evaluations)
        point == hash_commitment(commitment)
        product_eval_at_point ==
            fmul(evaluate(polynomial, point), evaluate(epoch_challenge.epoch_polynomial, point))
        proof == open_lagrange(pk.lagrange_basis_at_beta_g, pk.product_domain_elements,
                               product_evaluations, point, product_eval_at_point)
        ran == <<"role", "polynomial", "evaluations", "commitment", "point", "evaluation", "opening">>
    IN IF Hiding(proof)
       THEN Err("The prover solution must contain a non-hiding proof", ran)
       ELSE Ok(ProverSolution_new(PartialSolution_new(address, nonce, commitment), proof), ran)

\* difficulty_gate with the comparison turned around.
difficulty_gate_inverted(hash, proof_target) ==
    IF hash = 0 THEN "panic"
    ELSE IF U64_MAX \div hash > proof_target THEN "fail"
    ELSE "pass"

\* difficulty_gate failing a target that is met exactly.
difficulty_gate_strict(hash, proof_target) ==
    IF hash = 0 THEN "panic"
    ELSE IF U64_MAX \div hash <= proof_target THEN "fail"
    ELSE "pass"

\* The difficulty gate of prove_abm on the hash of the commitment:
\* "pass", "fail" (difficult not met) or "panic" (the division by a zero hash).
difficulty_gate(hash, proof_target) ==
    IF hash = 0 THEN "panic"
    ELSE IF U64_MAX \div hash < proof_target THEN "fail"
    ELSE "pass"

\* CoinbasePuzzle::prove_abm (the spec's prove_with_target).
prove_abm(self, proof_target, epoch_challenge, address, nonce) ==
    IF self.variant = "Verifier"
    THEN Err("Cannot prove the coinbase puzzle with a verifier", <<"role">>)
    ELSE
    LET pk == self.key
        polynomial == prover_polynomial(epoch_challenge, address, nonce)
        polynomial_evaluations == in_order_fft_with_pc(pk.fft_precomputation, polynomial)
        product_evaluations ==
            mul_polynomials_in_evaluation_domain(
                polynomial_evaluations, epoch_challenge.epoch_polynomial_evaluations)
        commitment == commit_lagrange(pk.lagrange_basis_at_beta_g, product_evaluations)
        gate == difficulty_gate(sha256d_to_u64(commitment_to_bytes_le(commitment)), proof_target)
        point == hash_commitment(commitment)
        product_eval_at_point ==
            fmul(evaluate(polynomial, point), evaluate(epoch_challenge.epoch_polynomial, point))
        proof == open_lagrange(pk.lagrange_basis_at_beta_g, pk.product_domain_elements,
                               product_evaluations, point, product_eval_at_point)
        early == <<"role", "polynomial", "evaluations", "commitment", "gate">>
        ran == early \o <<"point", "evaluation", "opening">>
    IN IF gate = "panic" THEN Panic("attempt to divide by zero", early)
       ELSE IF gate = "fail" THEN Err("difficult not met", early)
       ELSE IF Hiding(proof)
       THEN Err("The prover solution must contain a non-hiding proof", ran)
       ELSE Ok(ProverSolution_new(PartialSolution_new(address, nonce, commitment), proof), ran)

(* ----------------------------- accumulate --------------------------- *)

\* The filter_map of accumulate over one chunk of the prover solutions: the
\* solutions with a non-hiding proof, as <<prover polynomial, partial solution>>.
RECURSIVE retain_chunk(_, _, _, _)
retain_chunk(epoch_challenge, prover_solutions, lo, hi) ==
    IF lo > hi THEN <<>>
    ELSE LET solution == prover_solutions[lo]
             partial == solution.partial_solution
         IN (IF Hiding(solution.proof) THEN <<>>
             ELSE << <<prover_polynomial(epoch_challenge, partial.address, partial.nonce),
                       PartialSolution_new(partial.address, partial.nonce, partial.commitment)>> >>)
            \o retain_chunk(epoch_challenge, prover_solutions, lo + 1, hi)

\* The chunks' outputs, concatenated in the order in which the chunks complete
\* when the last chunk completes first.
RECURSIVE retain_chunks_unordered(_, _, _, _)
retain_chunks_unordered(epoch_challenge, prover_solutions, pieces, c) ==
    IF c > Len(pieces) THEN <<>>
    ELSE retain_chunks_unordered(epoch_challenge, prover_solutions, pieces, c + 1)
         \o retain_chunk(epoch_challenge, prover_solutions, pieces[c][1], pieces[c][2])

\* The chunks' outputs, concatenated in the order of the chunks (an indexed
\* parallel iterator keeps the order of its items whatever the completion order).
RECURSIVE retain_chunks(_, _, _, _)
retain_chunks(epoch_challenge, prover_solutions, pieces, c) ==
    IF c > Len(pieces) THEN <<>>
    ELSE retain_chunk(epoch_challenge, prover_solutions, pieces[c][1], pieces[c][2])
         \o retain_chunks(epoch_challenge, prover_solutions, pieces, c + 1)

RECURSIVE column(_, _, _)
column(pairs, which, i) ==
    IF i > Len(pairs) THEN <<>> ELSE <<pairs[i][which]>> \o column(pairs, which, i + 1)

\* The fold of accumulate over one chunk: accumulator += prover_polynomial * challenge.
RECURSIVE fold_polynomials(_, _, _, _, _)
fold_polynomials(prover_polynomials, challenges, lo, hi, accumulator) ==
    IF lo > hi THEN accumulator
    ELSE fold_polynomials(prover_polynomials, challenges, lo + 1, hi,
                          poly_add(accumulator, poly_scale(prover_polynomials[lo], challenges[lo])))

RECURSIVE fold_polynomials_chunks(_, _, _, _)
fold_polynomials_chunks(prover_polynomials, challenges, pieces, c) ==
    IF c > Len(pieces) THEN <<>>
    ELSE <<fold_polynomials(prover_polynomials, challenges, pieces[c][1], pieces[c][2], <<>>)>>
         \o fold_polynomials_chunks(prover_polynomials, challenges, pieces, c + 1)

\* sum::<DensePolynomial<_>>() of the chunks' accumulators.
RECURSIVE sum_polynomials(_, _)
sum_polynomials(polynomials, i) ==
    IF i > Len(polynomials) THEN <<>>
    ELSE poly_add(polynomials[i], sum_polynomials(polynomials, i + 1))

\* The accumulated prover polynomial: fold each chunk from zero, then sum.
accumulated_prover_polynomial(prover_polynomials, challenges, schedule) ==
    sum_polynomials(
        arrival(fold_polynomials_chunks(prover_polynomials, challenges,
                                        chunks(Len(prover_polynomials), schedule), 1),
                schedule), 1)

\* CoinbasePuzzle::accumulate, from the challenge points on: the check of their
\* number, the accumulator point popped from their end, the fold of the prover
\* polynomials with the challenges left, and the opening.
accumulate_challenged(pk, epoch_challenge, prover_polynomials, partial_solutions, all_challenges, schedule) ==
    LET challenges == SubSeq(all_challenges, 1, Len(all_challenges) - 1)
        accumulator_point == all_challenges[Len(all_challenges)]
        accumulated ==
            accumulated_prover_polynomial(
                prover_polynomials, challenges,
                [cuts |-> schedule.cuts \cap (1 .. (Len(prover_polynomials) - 1)),
                 reversed |-> schedule.reversed])
        product_eval_at_challenge_point ==
            fmul(evaluate(accumulated, accumulator_point),
                 evaluate(epoch_challenge.epoch_polynomial, accumulator_point))
        product_evals ==
            mul_polynomials_in_evaluation_domain(
                in_order_fft_with_pc(pk.fft_precomputation, accumulated),
                epoch_challenge.epoch_polynomial_evaluations)
        proof == open_lagrange(pk.lagrange_basis_at_beta_g, pk.product_domain_elements,
                               product_evals, accumulator_point, product_eval_at_challenge_point)
        early == <<"empty", "size", "role", "filter", "challenges">>
        ran == early \o <<"fold", "evaluation", "opening">>
    IN IF Len(all_challenges) # Len(partial_solutions) + 1
       THEN Err("Invalid number of challenge points", early)
       ELSE IF Hiding(proof)
       THEN Err("The coinbase proof must be non-hiding", ran)
       ELSE Ok(CoinbaseSolution_new(partial_solutions, proof), ran)

\* CoinbasePuzzle::accumulate, from the filter_map on: the body a Prover handle
\* runs on a list of accepted length.
accumulate_retained(pk, epoch_challenge, prover_solutions, schedule) ==
    LET retained == retain_chunks(epoch_challenge, prover_solutions,
                                  chunks(Len(prover_solutions), schedule), 1)
        prover_polynomials == column(retained, 1, 1)
        partial_solutions == column(retained, 2, 1)
    IN accumulate_challenged(pk, epoch_challenge, prover_polynomials, partial_solutions,
                             hash_commitments(commitments_of(partial_solutions, 1)), schedule)

\* The message of accumulate for a list that is too long.
TooManyProverSolutions(found) ==
    "Cannot accumulate beyond " \o ToString(MAX_PROVER_SOLUTIONS)
        \o " prover solutions, found " \o ToString(found) \o "."

\* accumulate that rejects a list with a prover solution whose opening proof
\* does not verify.
accumulate_checking(self, epoch_challenge, prover_solutions, schedule) ==
    LET verifies(solution) ==
            LET partial == solution.partial_solution
                point == hash_commitment(partial.commitment)
                polynomial == prover_polynomial(epoch_challenge, partial.address, partial.nonce)
            IN KZG10_check(self.key.verifying_key, partial.commitment, point,
                           fmul(evaluate(polynomial, point),
                                evaluate(epoch_challenge.epoch_polynomial, point)),
                           solution.proof)
    IN IF Len(prover_solutions) = 0
       THEN Err("Cannot accumulate an empty list of prover solutions.", <<"empty">>)
       ELSE IF Len(prover_solutions) > MAX_PROVER_SOLUTIONS
       THEN Err(TooManyProverSolutions(Len(prover_solutions)), <<"empty", "size">>)
       ELSE IF self.variant = "Verifier"
       THEN Err("Cannot accumulate the coinbase puzzle with a verifier", <<"empty", "size", "role">>)
       ELSE IF \E i \in 1 .. Len(prover_solutions) : ~verifies(prover_solutions[i])
       THEN Err("Invalid prover solution", <<"empty", "size", "role">>)
       ELSE accumulate_retained(self.key, epoch_challenge, prover_solutions, schedule)

\* accumulate with the role of the handle checked before the size of the list.
accumulate_role_first(self, epoch_challenge, prover_solutions, schedule) ==
    IF self.variant = "Verifier"
    THEN Err("Cannot accumulate the coinbase puzzle with a verifier", <<"role">>)
    ELSE IF Len(prover_solutions) = 0
    THEN Err("Cannot accumulate an empty list of prover solutions.", <<"role", "empty">>)
    ELSE IF Len(prover_solutions) > MAX_PROVER_SOLUTIONS
    THEN Err(TooManyProverSolutions(Len(prover_solutions)), <<"role", "empty", "size">>)
    ELSE accumulate_retained(self.key, epoch_challenge, prover_solutions, schedule)

\* accumulate with the size check off by one.
accumulate_off_by_one(self, epoch_challenge, prover_solutions, schedule) ==
    IF Len(prover_solutions) = 0
    THEN Err("Cannot accumulate an empty list of prover solutions.", <<"empty">>)
    ELSE IF Len(prover_solutions) > MAX_PROVER_SOLUTIONS + 1
    THEN Err(TooManyProverSolutions(Len(prover_solutions)), <<"empty", "size">>)
    ELSE IF self.variant = "Verifier"
    THEN Err("Cannot accumulate the coinbase puzzle with a verifier", <<"empty", "size", "role">>)
    ELSE accumulate_retained(self.key, epoch_challenge, prover_solutions, schedule)

\* CoinbasePuzzle::accumulate: the checks on the list and on the handle, then the body.
accumulate(self, epoch_challenge, prover_solutions, schedule) ==
    IF Len(prover_solutions) = 0
    THEN Err("Cannot accumulate an empty list of prover solutions.", <<"empty">>)
    ELSE IF Len(prover_solutions) > MAX_PROVER_SOLUTIONS
    THEN Err(TooManyProverSolutions(Len(prover_solutions)), <<"empty", "size">>)
    ELSE IF self.variant = "Verifier"
    THEN Err("Cannot accumulate the coinbase puzzle with a verifier", <<"empty", "size", "role">>)
    ELSE accumulate_retained(self.key, epoch_challenge, prover_solutions, schedule)

(* ------------------------------- verify ----------------------------- *)

\* first_below_target rejecting a target that is met exactly.
RECURSIVE first_below_target_strict(_, _, _)
first_below_target_strict(partial_solutions, proof_target, i) ==
    IF i > Len(partial_solutions) THEN 0
    ELSE IF to_target(partial_solutions[i]) <= proof_target THEN i
    ELSE first_below_target_strict(partial_solutions, proof_target, i + 1)

\* first_below_target with the comparison turned around.
RECURSIVE first_below_target_inverted(_, _, _)
first_below_target_inverted(partial_solutions, proof_target, i) ==
    IF i > Len(partial_solutions) THEN 0
    ELSE IF to_target(partial_solutions[i]) > proof_target THEN i
    ELSE first_below_target_inverted(partial_solutions, proof_target, i + 1)

\* The index of the first partial solution below the proof target, 0 when none is.
RECURSIVE first_below_target(_, _, _)
first_below_target(partial_solutions, proof_target, i) ==
    IF i > Len(partial_solutions) THEN 0
    ELSE IF to_target(partial_solutions[i]) < proof_target THEN i
    ELSE first_below_target(partial_solutions, proof_target, i + 1)

\* The event sequences that the map of verify over the partial solutions can
\* leave.  The map is a parallel iterator collected into a Result: a partial
\* solution that is taken has its target checked and, when the check passes,
\* its prover polynomial computed; the partial solutions that are taken run
\* side by side, so their events interleave; once a failure is stored the
\* partial solutions not yet taken are skipped.  Without a failure every
\* partial solution is taken; with one, some failing partial solution is.
map_traces(partial_solutions, proof_target) ==
    LET k == Len(partial_solutions)
        fails(i) == to_target(partial_solutions[i]) < proof_target
        item(i) == IF fails(i) THEN <<"proof_target">> ELSE <<"proof_target", "polynomial">>
        taken == IF \E i \in 1 .. k : fails(i)
                 THEN {run \in SUBSET (1 .. k) : \E i \in run : fails(i)}
                 ELSE {1 .. k}
        RECURSIVE interleavings(_, _)
        interleavings(s, t) ==
            IF s = <<>> THEN {t}
            ELSE IF t = <<>> THEN {s}
            ELSE {<<Head(s)>> \o u : u \in interleavings(Tail(s), t)}
                 \cup {<<Head(t)>> \o u : u \in interleavings(s, Tail(t))}
        RECURSIVE traces(_, _)
        traces(run, i) ==
            IF i > k THEN {<<>>}
            ELSE IF i \notin run THEN traces(run, i + 1)
            ELSE UNION {interleavings(item(i), u) : u \in traces(run, i + 1)}
    IN UNION {traces(run, 1) : run \in taken}

\* The map of verify over the partial solutions under a schedule: the event
\* sequence of the schedule; under the sequential schedule the partial
\* solutions are taken in index order up to the first failure.
map_events(partial_solutions, proof_target, schedule) ==
    LET RECURSIVE items(_)
        items(i) ==
            IF i > Len(partial_solutions) THEN <<>>
            ELSE IF to_target(partial_solutions[i]) < proof_target THEN <<"proof_target">>
            ELSE <<"proof_target", "polynomial">> \o items(i + 1)
    IN IF "map" \in DOMAIN schedule THEN schedule.map ELSE items(1)

RECURSIVE prover_polynomials_of(_, _, _)
prover_polynomials_of(epoch_challenge, partial_solutions, i) ==
    IF i > Len(partial_solutions) THEN <<>>
    ELSE <<prover_polynomial(epoch_challenge, partial_solutions[i].address,
                             partial_solutions[i].nonce)>>
         \o prover_polynomials_of(epoch_challenge, partial_solutions, i + 1)

\* The fold of verify over one chunk:
\* accumulator + prover_polynomial.evaluate(accumulator_point) * challenge_point.
RECURSIVE fold_evaluations(_, _, _, _, _, _)
fold_evaluations(prover_polynomials, challenge_points, accumulator_point, lo, hi, accumulator) ==
    IF lo > hi THEN accumulator
    ELSE fold_evaluations(
             prover_polynomials, challenge_points, accumulator_point, lo + 1, hi,
             fadd(accumulator,
                  fmul(evaluate(prover_polynomials[lo], accumulator_point), challenge_points[lo])))

\* fold_evaluations_chunks with each chunk's fold started from one instead of zero.
RECURSIVE fold_evaluations_chunks_from_one(_, _, _, _, _)
fold_evaluations_chunks_from_one(prover_polynomials, challenge_points, accumulator_point, pieces, c) ==
    IF c > Len(pieces) THEN <<>>
    ELSE <<fold_evaluations(prover_polynomials, challenge_points, accumulator_point,
                            pieces[c][1], pieces[c][2], 1)>>
         \o fold_evaluations_chunks_from_one(prover_polynomials, challenge_points,
                                             accumulator_point, pieces, c + 1)

RECURSIVE fold_evaluations_chunks(_, _, _, _, _)
fold_evaluations_chunks(prover_polynomials, challenge_points, accumulator_point, pieces, c) ==
    IF c > Len(pieces) THEN <<>>
    ELSE <<fold_evaluations(prover_polynomials, challenge_points, accumulator_point,
                            pieces[c][1], pieces[c][2], 0)>>
         \o fold_evaluations_chunks(prover_polynomials, challenge_points, accumulator_point,
                                    pieces, c + 1)

\* sum() of the chunks' accumulators.
RECURSIVE sum_evaluations(_, _)
sum_evaluations(values, i) ==
    IF i > Len(values) THEN 0 ELSE fadd(values[i], sum_evaluations(values, i + 1))

\* The sum of the challenge-scaled evaluations: fold each chunk from zero, then sum.
accumulated_evaluation(prover_polynomials, challenge_points, accumulator_point, schedule) ==
    sum_evaluations(
        arrival(fold_evaluations_chunks(prover_polynomials, challenge_points, accumulator_point,
                                        chunks(Len(prover_polynomials), schedule), 1),
                schedule), 1)

\* The verifying key a handle checks with.
verifying_key_of(self) ==
    IF self.variant = "Prover" THEN self.key.verifying_key ELSE self.key

\* below_coinbase_target with the cumulative target cut to a u64 instead of the
\* coinbase target widened to a u128.
below_coinbase_target_narrowed(cumulative_target, coinbase_target) ==
    cumulative_target % (U64_MAX + 1) < coinbase_target

\* The coinbase-level test of verify: the u128 cumulative target against
\* coinbase_target as u128.
below_coinbase_target(cumulative_target, coinbase_target) ==
    cumulative_target < coinbase_target

\* The message of verify for a coinbase solution that is too long.
TooManyPartialSolutions(found) ==
    "The coinbase solution exceeds the allowed number of partial solutions. ("
        \o ToString(found) \o " > " \o ToString(MAX_PROVER_SOLUTIONS) \o ")"

\* The stages of verify that precede its map over the partial solutions.
verify_checks == <<"empty", "size", "hiding", "coinbase_target">>

\* verify_accumulated with the verdict of the pairing check dropped.
verify_accumulated_unchecked(self, coinbase_solution, epoch_challenge, proof_target, schedule) ==
    Ok(TRUE, verify_checks \o map_events(coinbase_solution.partial_solutions, proof_target, schedule)
             \o <<"challenges", "evaluation", "commitment", "pairing">>)

\* verify_challenged without the check of the number of challenge points: with
\* another number of them the zip of the prover polynomials with the
\* challenges panics.
verify_challenged_unguarded(self, coinbase_solution, epoch_challenge, proof_target, all_points, schedule) ==
    LET partial_solutions == coinbase_solution.partial_solutions
        prover_polynomials == prover_polynomials_of(epoch_challenge, partial_solutions, 1)
        commitments == commitments_of(partial_solutions, 1)
        challenge_points == SubSeq(all_points, 1, Len(all_points) - 1)
        accumulator_point == all_points[Len(all_points)]
        accumulator_evaluation ==
            fmul(accumulated_evaluation(prover_polynomials, challenge_points,
                                        accumulator_point, schedule),
                 evaluate(epoch_challenge.epoch_polynomial, accumulator_point))
        mapped == verify_checks \o map_events(partial_solutions, proof_target, schedule)
    IN IF Len(challenge_points) # Len(prover_polynomials)
       THEN Panic("iterators must have the same length", mapped \o <<"challenges">>)
       ELSE Ok(KZG10_check(verifying_key_of(self), msm(commitments, challenge_points),
                           accumulator_point, accumulator_evaluation, coinbase_solution.proof),
               mapped \o <<"challenges", "evaluation", "commitment", "pairing">>)

\* CoinbasePuzzle::verify, from the challenge points on: the check of their
\* number, the accumulator point popped from their end, the accumulated
\* evaluation and commitment, and the pairing check.
verify_challenged(self, coinbase_solution, epoch_challenge, proof_target, all_points, schedule) ==
    LET partial_solutions == coinbase_solution.partial_solutions
        prover_polynomials == prover_polynomials_of(epoch_challenge, partial_solutions, 1)
        commitments == commitments_of(partial_solutions, 1)
        challenge_points == SubSeq(all_points, 1, Len(all_points) - 1)
        accumulator_point == all_points[Len(all_points)]
        accumulator_evaluation ==
            fmul(accumulated_evaluation(prover_polynomials, challenge_points,
                                        accumulator_point, schedule),
                 evaluate(epoch_challenge.epoch_polynomial, accumulator_point))
        accumulator_commitment == msm(commitments, challenge_points)
        coinbase_verifying_key == verifying_key_of(self)
        mapped == verify_checks \o map_events(partial_solutions, proof_target, schedule)
    IN IF Len(all_points) # Len(partial_solutions) + 1
       THEN Err("Invalid number of challenge points", mapped \o <<"challenges">>)
       ELSE Ok(KZG10_check(coinbase_verifying_key, accumulator_commitment, accumulator_point,
                           accumulator_evaluation, coinbase_solution.proof),
               mapped \o <<"challenges", "evaluation", "commitment", "pairing">>)

\* CoinbasePuzzle::verify, after the map over the partial solutions: the
\* challenge points of the commitments, and what follows them.
verify_accumulated(self, coinbase_solution, epoch_challenge, proof_target, schedule) ==
    verify_challenged(self, coinbase_solution, epoch_challenge, proof_target,
                      hash_commitments(commitments_of(coinbase_solution.partial_solutions, 1)),
                      schedule)

\* verify with the proof targets of the partial solutions checked before the
\* cumulative coinbase target.
verify_proof_target_first(self, coinbase_solution, epoch_challenge, coinbase_target, proof_target, schedule) ==
    LET partial_solutions == coinbase_solution.partial_solutions
        checks == verify_checks
    IN
    IF Len(partial_solutions) = 0
    THEN Err("The coinbase solution does not contain any partial solutions", SubSeq(checks, 1, 1))
    ELSE IF Len(partial_solutions) > MAX_PROVER_SOLUTIONS
    THEN Err(TooManyPartialSolutions(Len(partial_solutions)), SubSeq(checks, 1, 2))
    ELSE IF Hiding(coinbase_solution.proof)
    THEN Err("The coinbase proof must be non-hiding", SubSeq(checks, 1, 3))
    ELSE IF some_hash_is_zero(partial_solutions, 1)
    THEN Panic("attempt to divide by zero", checks)
    ELSE IF first_below_target(partial_solutions, proof_target, 1) # 0
    THEN Err("Prover puzzle does not meet the proof target requirements.",
             checks \o map_events(partial_solutions, proof_target, schedule))
    ELSE IF below_coinbase_target(to_cumulative_target(partial_solutions, 1), coinbase_target)
    THEN Err("The coinbase proof does not meet the coinbase target", checks)
    ELSE verify_accumulated(self, coinbase_solution, epoch_challenge, proof_target, schedule)

\* CoinbasePuzzle::verify
verify(self, coinbase_solution, epoch_challenge, coinbase_target, proof_target, schedule) ==
    LET partial_solutions == coinbase_solution.partial_solutions
        checks == verify_checks
    IN
    IF Len(partial_solutions) = 0
    THEN Err("The coinbase solution does not contain any partial solutions", SubSeq(checks, 1, 1))
    ELSE IF Len(partial_solutions) > MAX_PROVER_SOLUTIONS
    THEN Err(TooManyPartialSolutions(Len(partial_solutions)), SubSeq(checks, 1, 2))
    ELSE IF Hiding(coinbase_solution.proof)
    THEN Err("The coinbase proof must be non-hiding", SubSeq(checks, 1, 3))
    ELSE IF some_hash_is_zero(partial_solutions, 1)
    THEN Panic("attempt to divide by zero", checks)
    ELSE IF below_coinbase_target(to_cumulative_target(partial_solutions, 1), coinbase_target)
    THEN Err("The coinbase proof does not meet the coinbase target", checks)
    ELSE IF first_below_target(partial_solutions, proof_target, 1) # 0
    THEN Err("Prover puzzle does not meet the proof target requirements.",
             checks \o map_events(partial_solutions, proof_target, schedule))
    ELSE verify_accumulated(self, coinbase_solution, epoch_challenge, proof_target, schedule)

\* The schedules of a call of verify: an event sequence of its map when the
\* call reaches the map, and a schedule of the fold that follows it when the
\* call reaches the fold.  A loop that the call does not reach has no schedule.
VerifySchedules(self, coinbase_solution, epoch_challenge, coinbase_target, proof_target) ==
    LET partial_solutions == coinbase_solution.partial_solutions
        sequential == verify(self, coinbase_solution, epoch_challenge, coinbase_target,
                             proof_target, Sequential)
        reaches(stage) == \E i \in 1 .. Len(sequential.ran) : sequential.ran[i] = stage
        maps == IF reaches("proof_target") THEN map_traces(partial_solutions, proof_target)
                ELSE {<<>>}
        folds == IF reaches("evaluation") THEN Schedules(Len(partial_solutions))
                 ELSE {Sequential}
    IN {[cuts |-> fold.cuts, reversed |-> fold.reversed, map |-> trace] :
            fold \in folds, trace \in maps}

\* coinbase_proving_key handing out the key of either variant.
coinbase_proving_key_open(self) == Ok(self.key, <<"role">>)

\* CoinbasePuzzle::coinbase_proving_key
coinbase_proving_key(self) ==
    IF self.variant = "Prover" THEN Ok(self.key, <<"role">>)
    ELSE Err("Cannot fetch the coinbase proving key with a verifier", <<"role">>)

\* CoinbasePuzzle::coinbase_verifying_key
coinbase_verifying_key(self) ==
    IF self.variant = "Prover" THEN Ok(self.key.verifying_key, <<"role">>)
    ELSE Ok(self.key, <<"role">>)

(* --------------------------- the state machine ---------------------- *)

VARIABLES
    puzzle,             \* the handles in use: puzzle.prover, puzzle.verifier
    epoch_challenge,    \* the epoch challenge of the current epoch
    prover_solutions,   \* the prover solutions the aggregator has collected
    coinbase_solution,  \* <<>> or <<the coinbase solution under examination>>
    edit,               \* what was done to the coinbase solution since accumulate
    call,               \* the call in flight with its result, or Idle
    registers           \* the register file of the function an instruction runs in

vars == <<puzzle, epoch_challenge, prover_solutions, coinbase_solution, edit, call, registers>>

\* The puzzle runs no function: there are no registers.
NoRegisters == <<>>

\* Degrees of the puzzle configurations tried.
Degrees == {2, 3}
\* The secrets beta the SRS is generated from, and the degree of its configuration.
Betas == {5}
SrsConfig == [degree |-> 4]
\* <<epoch_number, epoch_block_hash>> of the epochs tried.
Epochs == {<<0, 0>>, <<1, 77>>}
Addresses == {0, 1, 2}
Nonces == 0 .. MaxNonce
\* Proof targets and coinbase targets tried.
Targets == {0, 2}
\* Proof targets the provers try with prove_abm.
GateTargets == {0, 1, 2, 3, U64_MAX}
\* The bits of a commitment's encoding that tampering flips.
FlipBits == {0, 9}
Handles == {"prover", "verifier"}

NoResult == [tag |-> "None", val |-> "None", ran |-> <<>>]

Call(op, self, address, nonce, coinbase_target, proof_target, schedule, result) ==
    [op |-> op, self |-> self, address |-> address, nonce |-> nonce,
     coinbase_target |-> coinbase_target, proof_target |-> proof_target,
     schedule |-> schedule, result |-> result]

NoEdit == [kind |-> "none", i |-> 0, j |-> 0]

Idle == Call("idle", "prover", 0, 0, 0, 0, Sequential, NoResult)

\* The aggregator takes the solutions in which prover a used its nonce a, in the
\* order of the provers' addresses.
Collectable(address, nonce) ==
    /\ nonce = address
    /\ IF prover_solutions = <<>> THEN TRUE
       ELSE prover_solutions[Len(prover_solutions)].partial_solution.address <= address

Init ==
    \E degree \in Degrees, beta \in Betas, epoch \in Epochs :
        LET trimmed == trim(setup(SrsConfig, beta), [degree |-> degree])
        IN /\ IsOk(trimmed)
           /\ puzzle = [prover |-> trimmed.val,
                        verifier |-> Verifier(trimmed.val.key.verifying_key)]
           /\ epoch_challenge = EpochChallenge_new(epoch[1], epoch[2], degree)
           /\ prover_solutions = <<>>
           /\ coinbase_solution = <<>>
           /\ edit = NoEdit
           /\ call = Idle
           /\ registers = NoRegisters

\* A prover (or a caller holding the verifier handle) calls prove.
Prove(self, address, nonce) ==
    /\ call.op = "idle"
    /\ coinbase_solution = <<>>
    /\ IF prover_solutions = <<>> THEN TRUE ELSE Collectable(address, nonce)
    /\ call' = Call("prove", self, address, nonce, 0, 0, Sequential,
                    prove(puzzle[self], epoch_challenge, address, nonce))
    /\ UNCHANGED <<registers, puzzle, epoch_challenge, prover_solutions, coinbase_solution, edit>>

\* A prover calls prove_abm with a proof target.
ProveAbm(self, proof_target, address, nonce) ==
    /\ call.op = "idle"
    /\ coinbase_solution = <<>>
    /\ IF prover_solutions = <<>> THEN TRUE ELSE Collectable(address, nonce)
    /\ call' = Call("prove_abm", self, address, nonce, 0, proof_target, Sequential,
                    prove_abm(puzzle[self], proof_target, epoch_challenge, address, nonce))
    /\ UNCHANGED <<registers, puzzle, epoch_challenge, prover_solutions, coinbase_solution, edit>>

\* The aggregator adds the prover solution a call returned to its list.
Collect ==
    /\ call.op \in {"prove", "prove_abm"}
    /\ IsOk(call.result)
    /\ Collectable(call.address, call.nonce)
    /\ Len(prover_solutions) <= MAX_PROVER_SOLUTIONS
    /\ prover_solutions' = Append(prover_solutions, call.result.val)
    /\ call' = Idle
    /\ UNCHANGED <<registers, puzzle, epoch_challenge, coinbase_solution, edit>>

\* The caller is done with the result of its call.
Return ==
    /\ call.op # "idle"
    /\ call' = Idle
    /\ UNCHANGED <<registers, puzzle, epoch_challenge, prover_solutions, coinbase_solution, edit>>

\* The aggregator accumulates the collected solutions; its loops run under a schedule.
Accumulate(self) ==
    /\ call.op = "idle"
    /\ coinbase_solution = <<>>
    /\ \E schedule \in Schedules(Len(prover_solutions)) :
           LET result == accumulate(puzzle[self], epoch_challenge, prover_solutions, schedule)
           IN /\ call' = Call("accumulate", self, 0, 0, 0, 0, schedule, result)
              /\ coinbase_solution' = IF IsOk(result) THEN <<result.val>> ELSE <<>>
    /\ UNCHANGED <<registers, puzzle, epoch_challenge, prover_solutions, edit>>

\* A verifier checks the coinbase solution against the targets.
Verify(self, coinbase_target, proof_target) ==
    /\ call.op = "idle"
    /\ coinbase_solution # <<>>
    /\ \E schedule \in VerifySchedules(puzzle[self], coinbase_solution[1], epoch_challenge,
                                       coinbase_target, proof_target) :
           call' = Call("verify", self, 0, 0, coinbase_target, proof_target, schedule,
                        verify(puzzle[self], coinbase_solution[1], epoch_challenge,
                               coinbase_target, proof_target, schedule))
    /\ UNCHANGED <<registers, puzzle, epoch_challenge, prover_solutions, coinbase_solution, edit>>

\* ProvingKey moving the key out of the handle, which is left as a Verifier.
ProvingKey_taking(self) ==
    /\ call.op = "idle"
    /\ prover_solutions = <<>>
    /\ call' = Call("coinbase_proving_key", self, 0, 0, 0, 0, Sequential,
                    coinbase_proving_key(puzzle[self]))
    /\ puzzle' = [puzzle EXCEPT ![self] = Verifier(verifying_key_of(puzzle[self]))]
    /\ UNCHANGED <<registers, epoch_challenge, prover_solutions, coinbase_solution, edit>>

\* A caller asks the handle for the proving key.
ProvingKey(self) ==
    /\ call.op = "idle"
    /\ prover_solutions = <<>>
    /\ call' = Call("coinbase_proving_key", self, 0, 0, 0, 0, Sequential,
                    coinbase_proving_key(puzzle[self]))
    /\ UNCHANGED <<registers, puzzle, epoch_challenge, prover_solutions, coinbase_solution, edit>>

VerifyingKey(self) ==
    /\ call.op = "idle"
    /\ prover_solutions = <<>>
    /\ call' = Call("coinbase_verifying_key", self, 0, 0, 0, 0, Sequential,
                    coinbase_verifying_key(puzzle[self]))
    /\ UNCHANGED <<registers, puzzle, epoch_challenge, prover_solutions, coinbase_solution, edit>>

(* What a sender can do to a coinbase solution on its way to the verifier. *)

swap(seq, i, j) == [seq EXCEPT ![i] = seq[j], ![j] = seq[i]]

flip_bit(x, bit) == IF (x \div 2^bit) % 2 = 0 THEN x + 2^bit ELSE x - 2^bit

Edited(what, solution) ==
    /\ call.op = "idle"
    /\ coinbase_solution # <<>>
    /\ edit = NoEdit
    /\ edit' = what
    /\ coinbase_solution' = <<solution>>
    /\ UNCHANGED <<registers, puzzle, epoch_challenge, prover_solutions, call>>

SwapPartials(i, j) ==
    /\ coinbase_solution # <<>>
    /\ i < j /\ j <= Len(coinbase_solution[1].partial_solutions)
    /\ Edited([kind |-> "swap", i |-> i, j |-> j],
              [coinbase_solution[1] EXCEPT
                   !.partial_solutions = swap(coinbase_solution[1].partial_solutions, i, j)])

ReplaceCommitment(i, bit) ==
    /\ coinbase_solution # <<>>
    /\ i <= Len(coinbase_solution[1].partial_solutions)
    /\ LET flipped == flip_bit(coinbase_solution[1].partial_solutions[i].commitment, bit)
       IN /\ flipped < FieldModulus
          /\ Edited([kind |-> "replace", i |-> i, j |-> bit],
                    [coinbase_solution[1] EXCEPT !.partial_solutions[i].commitment = flipped])

HideProof ==
    /\ coinbase_solution # <<>>
    /\ Edited([kind |-> "hide", i |-> 0, j |-> 0],
              [coinbase_solution[1] EXCEPT !.proof.random_v = <<1>>])

DropPartials ==
    /\ coinbase_solution # <<>>
    /\ Edited([kind |-> "drop", i |-> 0, j |-> 0],
              [coinbase_solution[1] EXCEPT !.partial_solutions = <<>>])

RepeatPartial ==
    /\ coinbase_solution # <<>>
    /\ Len(coinbase_solution[1].partial_solutions) > 0
    /\ Edited([kind |-> "repeat", i |-> 0, j |-> 0],
              [coinbase_solution[1] EXCEPT
                   !.partial_solutions = Append(@, coinbase_solution[1].partial_solutions[1])])

Next ==
    \/ \E self \in Handles, address \in Addresses, nonce \in Nonces :
           Prove(self, address, nonce)
    \/ \E self \in Handles, proof_target \in GateTargets, address \in Addresses, nonce \in Nonces :
           ProveAbm(self, proof_target, address, nonce)
    \/ Collect
    \/ Return
    \/ \E self \in Handles : Accumulate(self)
    \/ \E self \in Handles, coinbase_target \in Targets, proof_target \in Targets :
           Verify(self, coinbase_target, proof_target)
    \/ \E self \in Handles : ProvingKey(self)
    \/ \E self \in Handles : VerifyingKey(self)
    \/ \E i \in 1 .. MAX_PROVER_SOLUTIONS, j \in 1 .. MAX_PROVER_SOLUTIONS : SwapPartials(i, j)
    \/ \E i \in 1 .. MAX_PROVER_SOLUTIONS, bit \in FlipBits : ReplaceCommitment(i, bit)
    \/ HideProof
    \/ DropPartials
    \/ RepeatPartial

Spec == Init /\ [][Next]_vars

(* ------------------------------- claims ----------------------------- *)

\* The partial solutions of the coinbase solution under examination.
held_partials == coinbase_solution[1].partial_solutions

\* A stage of the function body was executed by the call that gave the result.
Ran(result, stage) == \E i \in 1 .. Len(result.ran) : result.ran[i] = stage

\* The last stage the call executed.
LastStage(result) == result.ran[Len(result.ran)]

\* d(C) is defined for every commitment of the list: no hash is zero.
TargetsDefined(partial_solutions) ==
    \A i \in 1 .. Len(partial_solutions) :
        commitment_hash(partial_solutions[i].commitment) # 0

\* The sum of the d(C_i), as an unbounded integer.
RECURSIVE SumOfTargets(_, _)
SumOfTargets(partial_solutions, i) ==
    IF i > Len(partial_solutions) THEN 0
    ELSE U64_MAX \div commitment_hash(partial_solutions[i].commitment)
         + SumOfTargets(partial_solutions, i + 1)

\* The call in flight is verify with both targets 0.
VerifyAtZero ==
    call.op = "verify" /\ call.coinbase_target = 0 /\ call.proof_target = 0

\* C1: accumulate on a list of 1 .. MAX_PROVER_SOLUTIONS prover solutions that
\* prove returned under the epoch challenge returns Ok, and verify of the
\* coinbase solution it returned, with both targets 0, returns Ok(true).
C1_Completeness ==
    /\ (call.op = "accumulate" /\ call.self = "prover"
        /\ Len(prover_solutions) \in 1 .. MAX_PROVER_SOLUTIONS) => IsOk(call.result)
    /\ (VerifyAtZero /\ edit = NoEdit) => IsOkWith(call.result, TRUE)

\* The rejection rules (a) - (e) of verify, stated on the coinbase solution.
StructurallyInvalid(solution, coinbase_target, proof_target) ==
    LET partial_solutions == solution.partial_solutions
    IN \/ Len(partial_solutions) = 0
       \/ Len(partial_solutions) > MAX_PROVER_SOLUTIONS
       \/ Hiding(solution.proof)
       \/ /\ TargetsDefined(partial_solutions)
          /\ \/ \E i \in 1 .. Len(partial_solutions) :
                    U64_MAX \div commitment_hash(partial_solutions[i].commitment) < proof_target
             \/ SumOfTargets(partial_solutions, 1) < coinbase_target

\* C2: verify returns Err whenever the coinbase solution is empty, oversize,
\* has a partial solution below the proof target, a sum of targets below the
\* coinbase target or a hiding proof; it returns Ok(false) only when none of
\* these holds and the pairing check was reached.
C2_Rejection ==
    call.op = "verify" =>
        /\ StructurallyInvalid(coinbase_solution[1], call.coinbase_target, call.proof_target)
               => IsErr(call.result)
        /\ IsOkWith(call.result, FALSE)
               => /\ ~StructurallyInvalid(coinbase_solution[1], call.coinbase_target,
                                          call.proof_target)
                  /\ LastStage(call.result) = "pairing"

\* A verify call rejected for a partial solution below the proof target alone.
C2_Witness ==
    /\ call.op = "verify"
    /\ Len(held_partials) \in 1 .. MAX_PROVER_SOLUTIONS
    /\ ~Hiding(coinbase_solution[1].proof)
    /\ TargetsDefined(held_partials)
    /\ SumOfTargets(held_partials, 1) >= call.coinbase_target
    /\ \E i \in 1 .. Len(held_partials) :
           U64_MAX \div commitment_hash(held_partials[i].commitment) < call.proof_target
    /\ IsErr(call.result)

\* C3: when prove_abm with proof target t returns Ok(s), the hash of
\* s.commitment is not zero and u64::MAX / hash >= t.
C3_GateMonotone ==
    (call.op = "prove_abm" /\ IsOk(call.result)) =>
        LET hash == sha256d_to_u64(
                        commitment_to_bytes_le(call.result.val.partial_solution.commitment))
        IN hash # 0 /\ U64_MAX \div hash >= call.proof_target

\* prove_abm returned a solution under a proof target above zero.
C3_Witness ==
    call.op = "prove_abm" /\ IsOk(call.result) /\ call.proof_target >= 2

\* C4: on a Prover handle, with the commitment prove forms for the same
\* arguments: if d(commitment) >= t, prove_abm returns the prover solution prove
\* returns; if d(commitment) < t, it returns the error of the gate, having
\* formed the commitment and computed neither point, value nor opening.
C4_SameAsProve ==
    (call.op = "prove_abm" /\ call.self = "prover") =>
        LET plain == prove(puzzle[call.self], epoch_challenge, call.address, call.nonce)
            hash == commitment_hash(plain.val.partial_solution.commitment)
        IN (IsOk(plain) /\ hash # 0) =>
               IF U64_MAX \div hash < call.proof_target
               THEN /\ IsErrWith(call.result, "difficult not met")
                    /\ Ran(call.result, "commitment")
                    /\ LastStage(call.result) = "gate"
                    /\ ~Ran(call.result, "point")
                    /\ ~Ran(call.result, "evaluation")
                    /\ ~Ran(call.result, "opening")
               ELSE IsOk(call.result) /\ call.result.val = plain.val

\* prove_abm stopped at the gate, after the commitment.
C4_Witness ==
    /\ call.op = "prove_abm"
    /\ IsErrWith(call.result, "difficult not met")
    /\ Ran(call.result, "commitment")
    /\ ~Ran(call.result, "opening")

\* C5: the gate of prove_abm and the gate of verify accept the same commitments.
\* On a Prover handle, prove_abm with proof target t returns Ok exactly when
\* verify's test of that commitment against t passes, and the gate's error
\* exactly when it fails; and a verify call that reaches its per-solution test
\* rejects there exactly when some commitment fails the gate of prove_abm.
C5_GatesAgree ==
    /\ (call.op = "prove_abm" /\ call.self = "prover") =>
           LET plain == prove(puzzle[call.self], epoch_challenge, call.address, call.nonce)
               partial == plain.val.partial_solution
               accepted == first_below_target(<<partial>>, call.proof_target, 1) = 0
           IN (IsOk(plain) /\ commitment_hash(partial.commitment) # 0) =>
                  /\ IsOk(call.result) <=> accepted
                  /\ IsErrWith(call.result, "difficult not met") <=> ~accepted
    /\ (call.op = "verify" /\ Ran(call.result, "proof_target")) =>
           (IsErrWith(call.result, "Prover puzzle does not meet the proof target requirements.")
                <=> \E i \in 1 .. Len(held_partials) :
                        difficulty_gate(commitment_hash(held_partials[i].commitment),
                                        call.proof_target) = "fail")

\* prove_abm returned a solution whose target meets the proof target exactly.
C5_Witness ==
    /\ call.op = "prove_abm"
    /\ IsOk(call.result)
    /\ call.proof_target > 0
    /\ to_target(call.result.val.partial_solution) = call.proof_target

\* C6: on a Verifier handle prove, prove_abm, accumulate and coinbase_proving_key
\* return an error and accumulate leaves no coinbase solution;
\* coinbase_verifying_key returns the verifying key on both handles; and verify
\* on the Prover handle returns what verify on the Verifier handle returns for
\* the same arguments.
C6_RolesFailClosed ==
    /\ (call.self = "verifier"
        /\ call.op \in {"prove", "prove_abm", "accumulate", "coinbase_proving_key"})
           => IsErr(call.result)
    /\ (call.self = "verifier" /\ call.op = "accumulate") => coinbase_solution = <<>>
    /\ call.op = "coinbase_verifying_key"
           => IsOk(call.result) /\ call.result.val = puzzle["verifier"].key
    /\ (call.op = "verify" /\ call.self = "prover") =>
           call.result = verify(puzzle["verifier"], coinbase_solution[1], epoch_challenge,
                                call.coinbase_target, call.proof_target, call.schedule)

\* The Verifier handle was asked for the proving key and refused.
C6_Witness ==
    /\ call.op = "coinbase_proving_key"
    /\ call.self = "verifier"
    /\ IsErrWith(call.result, "Cannot fetch the coinbase proving key with a verifier")

\* C7: accumulate on an empty list returns the error of the empty list, and on
\* a list longer than MAX_PROVER_SOLUTIONS the error of the oversize list, on
\* either handle; neither call leaves a coinbase solution.
C7_ListLength ==
    call.op = "accumulate" =>
        /\ Len(prover_solutions) = 0 =>
               /\ IsErrWith(call.result, "Cannot accumulate an empty list of prover solutions.")
               /\ coinbase_solution = <<>>
        /\ Len(prover_solutions) > MAX_PROVER_SOLUTIONS =>
               /\ IsErr(call.result)
               /\ call.result.val = "Cannot accumulate beyond " \o ToString(MAX_PROVER_SOLUTIONS)
                                        \o " prover solutions, found "
                                        \o ToString(Len(prover_solutions)) \o "."
               /\ coinbase_solution = <<>>

\* accumulate refused a list of MAX_PROVER_SOLUTIONS + 1 prover solutions.
C7_Witness ==
    /\ call.op = "accumulate"
    /\ Len(prover_solutions) = MAX_PROVER_SOLUTIONS + 1
    /\ IsErr(call.result)
    /\ coinbase_solution = <<>>

\* C8: the result of accumulate under any schedule of its parallel loop is the
\* result under the sequential schedule; the value that verify returns (Ok
\* with its verdict, or its error) under any schedule of its parallel loops is
\* the value under the sequential schedule, and so is the sum of the
\* challenge-scaled evaluations that verify folds.
C8_ScheduleIndependent ==
    /\ (call.op = "accumulate" /\ call.schedule # Sequential) =>
           call.result = accumulate(puzzle[call.self], epoch_challenge, prover_solutions,
                                    Sequential)
    /\ call.op = "verify" =>
           LET sequential == verify(puzzle[call.self], coinbase_solution[1], epoch_challenge,
                                    call.coinbase_target, call.proof_target, Sequential)
           IN /\ call.result.tag = sequential.tag
              /\ call.result.val = sequential.val
    /\ (call.op = "verify" /\ Ran(call.result, "evaluation")) =>
           LET prover_polynomials == prover_polynomials_of(epoch_challenge, held_partials, 1)
               all_points == hash_commitments(commitments_of(held_partials, 1))
               challenge_points == SubSeq(all_points, 1, Len(all_points) - 1)
               accumulator_point == all_points[Len(all_points)]
           IN accumulated_evaluation(prover_polynomials, challenge_points, accumulator_point,
                                     call.schedule)
              = accumulated_evaluation(prover_polynomials, challenge_points, accumulator_point,
                                       Sequential)

\* verify accepted three partial solutions with the target checks of its map
\* interleaved with the prover polynomials and with its fold cut into three
\* chunks that were summed last to first.
C8_Witness ==
    /\ call.op = "verify"
    /\ call.schedule.cuts = {1, 2}
    /\ call.schedule.reversed
    /\ call.schedule.map = <<"proof_target", "proof_target", "polynomial", "proof_target",
                             "polynomial", "polynomial">>
    /\ Len(held_partials) = 3
    /\ IsOkWith(call.result, TRUE)

\* The coinbase solution under examination before its two partial solutions
\* were swapped.
before_swap ==
    [coinbase_solution[1] EXCEPT !.partial_solutions = swap(held_partials, edit.i, edit.j)]

\* verify, with both targets 0, of a coinbase solution whose partial solutions
\* edit.i and edit.j were swapped, which verified before the swap.
VerifyOfSwapped ==
    /\ VerifyAtZero
    /\ edit.kind = "swap"
    /\ IsOkWith(verify(puzzle[call.self], before_swap, epoch_challenge, 0, 0, Sequential), TRUE)

\* C9 as stated: swapping two partial solutions of a coinbase solution that
\* verifies makes verify, with both targets 0, return Ok(false).
C9_SwapRejected == VerifyOfSwapped => IsOkWith(call.result, FALSE)

\* C9 as amended: swapping two partial solutions that differ, in a coinbase
\* solution that verifies, makes verify, with both targets 0, return Ok(false).
C9_SwapOfDistinctRejected ==
    (VerifyOfSwapped /\ held_partials[edit.i] # held_partials[edit.j])
        => IsOkWith(call.result, FALSE)

\* verify returned Ok(false) on a coinbase solution that verified before two
\* partial solutions that differ were swapped.
C9_Witness ==
    /\ VerifyOfSwapped
    /\ held_partials[edit.i] # held_partials[edit.j]
    /\ IsOkWith(call.result, FALSE)

\* C10: a coinbase solution accumulated from the prover solutions of three
\* provers with distinct addresses and nonces verifies with both targets 0, and
\* after one commitment is replaced by another verify returns Ok(false).
C10_TamperDetected ==
    (/\ VerifyAtZero
     /\ Len(held_partials) = 3
     /\ \A i, j \in 1 .. 3 :
            i # j => /\ held_partials[i].address # held_partials[j].address
                     /\ held_partials[i].nonce # held_partials[j].nonce)
        => /\ edit = NoEdit => IsOkWith(call.result, TRUE)
           /\ edit.kind = "replace" => IsOkWith(call.result, FALSE)

(* --------------- accumulate on lists with hiding proofs ------------- *)

\* A prover solution of the aggregator's list arrives with a hiding proof: the
\* blinding component of the proof of solution i is set.
HideProverProof(i) ==
    /\ call.op = "idle"
    /\ coinbase_solution = <<>>
    /\ i <= Len(prover_solutions)
    /\ ~Hiding(prover_solutions[i].proof)
    /\ prover_solutions' = [prover_solutions EXCEPT ![i].proof.random_v = <<1>>]
    /\ UNCHANGED <<registers, puzzle, epoch_challenge, coinbase_solution, edit, call>>

\* A prover solution of the aggregator's list arrives with another opening
\* proof: the group element of the proof of solution i is the generator.  One
\* solution of a list is changed so.
ReplaceProverProof(i) ==
    /\ call.op = "idle"
    /\ coinbase_solution = <<>>
    /\ i <= Len(prover_solutions)
    /\ \A j \in 1 .. Len(prover_solutions) : prover_solutions[j].proof.w # 1
    /\ prover_solutions' = [prover_solutions EXCEPT ![i].proof.w = 1]
    /\ UNCHANGED <<registers, puzzle, epoch_challenge, coinbase_solution, edit, call>>

NextAccumulate ==
    \/ \E self \in Handles, address \in Addresses, nonce \in Nonces :
           Prove(self, address, nonce)
    \/ Collect
    \/ Return
    \/ \E i \in 1 .. MAX_PROVER_SOLUTIONS + 1 : HideProverProof(i)
    \/ \E i \in 1 .. MAX_PROVER_SOLUTIONS + 1 : ReplaceProverProof(i)
    \/ \E self \in Handles : Accumulate(self)

\* The aggregator's side alone: provers prove, the aggregator collects the
\* solutions, some of them with hiding proofs, and accumulates.
SpecAccumulate == Init /\ [][NextAccumulate]_vars

\* The prover solutions of the aggregator's list whose proof is hiding.
hiding_solutions == {i \in 1 .. Len(prover_solutions) : Hiding(prover_solutions[i].proof)}

\* C11: a coinbase solution that accumulate returns Ok has more than 0 and at
\* most MAX_PROVER_SOLUTIONS partial solutions and a non-hiding proof, whatever
\* prover solutions of the input list carry hiding proofs.
C11_SolutionInvariant ==
    (call.op = "accumulate" /\ IsOk(call.result)) =>
        /\ Len(call.result.val.partial_solutions) > 0
        /\ Len(call.result.val.partial_solutions) <= MAX_PROVER_SOLUTIONS
        /\ ~Hiding(call.result.val.proof)

\* C12: no call of prove, prove_abm, accumulate, verify, coinbase_proving_key
\* or coinbase_verifying_key, whether it succeeds or fails, and no step of the
\* callers around them, changes a handle: its variant and every field of its
\* proving or verifying key stay what construction made them.
C12_HandleTerminal == [][puzzle' = puzzle]_vars

\* Both handles are as constructed after verify has returned a verdict on a
\* coinbase solution that accumulate built from the provers' solutions.
C12_Witness ==
    /\ call.op = "verify"
    /\ IsOk(call.result)
    /\ Len(prover_solutions) > 0
    /\ puzzle.prover.variant = "Prover"
    /\ puzzle.verifier.variant = "Verifier"
    /\ puzzle.prover.key.verifying_key = puzzle.verifier.key

(* ----------------------- setup and trim of the SRS ------------------ *)

\* Degrees of the configurations given to setup and to trim.
MaxSetupDegree == 8
SetupDegrees == 1 .. MaxSetupDegree

\* No handle has been constructed yet.
NoPuzzle == [prover |-> <<>>, verifier |-> <<>>]

SetupCall(op, config, srs_config, result) ==
    [op |-> op, config |-> config, srs_config |-> srs_config, result |-> result]

InitSetup ==
    /\ puzzle = NoPuzzle
    /\ epoch_challenge = <<>>
    /\ prover_solutions = <<>>
    /\ coinbase_solution = <<>>
    /\ edit = NoEdit
    /\ call = Idle
    /\ registers = NoRegisters

\* CoinbasePuzzle::setup(config, rng): the random beta is the choice of rng.
Setup(config, beta) ==
    /\ call.op = "idle"
    /\ call' = SetupCall("setup", config, config, Ok(setup(config, beta), <<>>))
    /\ UNCHANGED <<registers, puzzle, epoch_challenge, prover_solutions, coinbase_solution, edit>>

\* CoinbasePuzzle::trim(srs, config) on the SRS that setup returned; the handles
\* are the Prover it returns and the Verifier made of its verifying key.
Trim(config) ==
    /\ call.op = "setup"
    /\ LET result == trim(call.result.val, config)
       IN /\ call' = SetupCall("trim", config, call.config, result)
          /\ puzzle' = IF IsOk(result)
                       THEN [prover |-> result.val,
                             verifier |-> Verifier(result.val.key.verifying_key)]
                       ELSE puzzle
    /\ UNCHANGED <<registers, epoch_challenge, prover_solutions, coinbase_solution, edit>>

NextSetup ==
    \/ \E degree \in SetupDegrees, beta \in {3, 5, 7} : Setup([degree |-> degree], beta)
    \/ \E degree \in SetupDegrees : Trim([degree |-> degree])

\* The construction of the handles: setup of an SRS, then trim.
SpecSetup == InitSetup /\ [][NextSetup]_vars

\* C13: the product domain of the handle that trim returns for degree n has
\* the size of the smallest power of two that is at least 2n + 1, which is at
\* least the number of coefficients of a product of two degree-n polynomials.
C13_ProductDomainSize ==
    (call.op = "trim" /\ IsOk(call.result)) =>
        LET size == call.result.val.key.product_domain.size
        IN /\ size = next_power_of_two(2 * call.config.degree + 1)
           /\ size >= 2 * call.config.degree + 1

\* C14: the SRS that setup returns for degree n holds 2n + 1 powers of beta G,
\* and trim with the same configuration on that SRS returns a handle.
C14_SetupSupportsTrim ==
    /\ call.op = "setup" =>
           Len(call.result.val.powers_of_beta_g) = 2 * call.config.degree + 1
    /\ (call.op = "trim" /\ call.srs_config = call.config) => IsOk(call.result)

(* ------------------------ the prover polynomial --------------------- *)

\* The epoch challenges: epoch numbers and block hashes whose encodings fill
\* no byte, one byte and four bytes.
InitPolynomial ==
    \E degree \in Degrees, epoch_number \in {0, 1, 16909060},
       epoch_block_hash \in {0, 77, 84281096} :
        /\ puzzle = NoPuzzle
        /\ epoch_challenge = EpochChallenge_new(epoch_number, epoch_block_hash, degree)
        /\ prover_solutions = <<>>
        /\ coinbase_solution = <<>>
        /\ edit = NoEdit
        /\ call = Idle
        /\ registers = NoRegisters

\* A caller computes the prover polynomial of an address and a nonce; the call
\* records the input buffer that was hashed.
ProverPolynomial(address, nonce) ==
    /\ call.op = "idle"
    /\ call' = [op |-> "prover_polynomial", address |-> address, nonce |-> nonce,
                input |-> prover_polynomial_input(epoch_challenge, address, nonce),
                result |-> Ok(prover_polynomial(epoch_challenge, address, nonce), <<>>)]
    /\ UNCHANGED <<registers, puzzle, epoch_challenge, prover_solutions, coinbase_solution, edit>>

NextPolynomial ==
    \/ \E address \in {0, 2, 151653132}, nonce \in {0, 1, 219025168} :
           ProverPolynomial(address, nonce)
    \/ Return

\* prover_polynomial over epochs, addresses and nonces of several bytes.
SpecPolynomial == InitPolynomial /\ [][NextPolynomial]_vars

\* C15: the input that prover_polynomial hashes has 76 bytes: the epoch number
\* in 4 little-endian bytes at offset 0, the block hash in 32 bytes at offset 4,
\* the address in 32 bytes at offset 36 and the nonce in 8 little-endian bytes
\* at offset 68, so that each byte belongs to one field; and the polynomial is
\* the hash of that input to the epoch's degree, whatever else the epoch
\* challenge holds.
C15_InputLayout ==
    call.op = "prover_polynomial" =>
        /\ Len(call.input) = 76
        /\ SubSeq(call.input, 1, 4) = to_bytes_le(epoch_challenge.epoch_number, 4)
        /\ SubSeq(call.input, 5, 36) = to_bytes_le(epoch_challenge.epoch_block_hash, 32)
        /\ SubSeq(call.input, 37, 68) = to_bytes_le(call.address, 32)
        /\ SubSeq(call.input, 69, 76) = to_bytes_le(call.nonce, 8)
        /\ call.result = Ok(hash_to_polynomial(call.input, epoch_degree(epoch_challenge)), <<>>)
        /\ call.result.val =
               prover_polynomial(
                   [epoch_number |-> epoch_challenge.epoch_number,
                    epoch_block_hash |-> epoch_challenge.epoch_block_hash,
                    epoch_polynomial |-> poly_zero(epoch_degree(epoch_challenge) + 1),
                    epoch_polynomial_evaluations |-> <<>>],
                   call.address, call.nonce)

\* prover_polynomial was computed from an epoch number, a block hash, an address
\* and a nonce of four bytes each.
C15_Witness ==
    /\ call.op = "prover_polynomial"
    /\ epoch_challenge.epoch_number >= 256 * 256 * 256
    /\ epoch_challenge.epoch_block_hash >= 256 * 256 * 256
    /\ call.address >= 256 * 256 * 256
    /\ call.nonce >= 256 * 256 * 256
    /\ Len(call.result.val) = epoch_degree(epoch_challenge) + 1

(* ------------- verify on coinbase solutions from the network -------- *)

\* Commitments a received coinbase solution may carry: their hashes are 1, 2
\* and 128 (targets u64::MAX, u64::MAX / 2 and 1 at the model's word width)
\* and 0.
ReceivedCommitments == {83, 22, 224, 107}

\* The lists of partial solutions of the coinbase solutions received: up to
\* MAX_PROVER_SOLUTIONS + 1 partial solutions in the order of their commitments.
ReceivedLists ==
    {list \in UNION {[1 .. k -> ReceivedCommitments] : k \in 0 .. MAX_PROVER_SOLUTIONS + 1} :
        /\ \A i \in 1 .. Len(list) - 1 : list[i] <= list[i + 1]
        /\ Len(list) > MAX_PROVER_SOLUTIONS => list[1] = list[Len(list)]}

\* The verifier receives a coinbase solution: any partial solutions, and a
\* proof that is hiding or not.
Receive(commitments, hiding) ==
    /\ call.op = "idle"
    /\ coinbase_solution = <<>>
    /\ coinbase_solution' =
           <<CoinbaseSolution_new(
                 [i \in 1 .. Len(commitments) |-> PartialSolution_new(0, 0, commitments[i])],
                 [w |-> 0, random_v |-> IF hiding THEN <<1>> ELSE <<>>])>>
    /\ edit' = [kind |-> "received", i |-> 0, j |-> 0]
    /\ UNCHANGED <<registers, puzzle, epoch_challenge, prover_solutions, call>>

NextVerify ==
    \/ \E commitments \in ReceivedLists, hiding \in BOOLEAN : Receive(commitments, hiding)
    \/ \E self \in Handles, coinbase_target \in {0, 128, U64_MAX}, proof_target \in Targets :
           Verify(self, coinbase_target, proof_target)
    \/ Return

\* The verifier's side alone: coinbase solutions arrive and are verified.
SpecVerify == Init /\ [][NextVerify]_vars

\* verify is called on a coinbase solution that passes the checks before the
\* coinbase target and whose targets are defined.
ReachesCoinbaseTarget ==
    /\ call.op = "verify"
    /\ Len(held_partials) \in 1 .. MAX_PROVER_SOLUTIONS
    /\ ~Hiding(coinbase_solution[1].proof)
    /\ TargetsDefined(held_partials)

\* C16: for a coinbase solution of up to MAX_PROVER_SOLUTIONS partial solutions
\* the cumulative target that verify compares is the sum of the d(C_i) as an
\* integer, below 2^128, and verify returns the error of the coinbase target
\* exactly when that sum is below coinbase_target.
C16_CumulativeTarget ==
    ReachesCoinbaseTarget =>
        /\ to_cumulative_target(held_partials, 1) = SumOfTargets(held_partials, 1)
        /\ SumOfTargets(held_partials, 1) < (U64_MAX + 1) * (U64_MAX + 1)
        /\ IsErrWith(call.result, "The coinbase proof does not meet the coinbase target")
               <=> SumOfTargets(held_partials, 1) < call.coinbase_target

\* verify let pass a coinbase solution whose targets sum to more than u64::MAX,
\* against the coinbase target u64::MAX.
C16_Witness ==
    /\ ReachesCoinbaseTarget
    /\ Len(held_partials) = MAX_PROVER_SOLUTIONS
    /\ SumOfTargets(held_partials, 1) > U64_MAX
    /\ call.coinbase_target = U64_MAX
    /\ ~IsErrWith(call.result, "The coinbase proof does not meet the coinbase target")

(* -------------------- the instructions add and mul ------------------ *)

SignedTypes == {"i8", "i16", "i32", "i64", "i128"}
IntegerTypes == SignedTypes \cup {"u8", "u16", "u32", "u64", "u128"}

\* The width of an integer type in bits: the type's own for i8 and u8, scaled
\* down for the wider types so that every product of two values is computed
\* exactly.
IntegerBits(type) ==
    CASE type \in {"i8", "u8"} -> 8
      [] type \in {"i16", "u16"} -> 10
      [] type \in {"i32", "u32"} -> 12
      [] type \in {"i64", "u64"} -> 14
      [] type \in {"i128", "u128"} -> 15

\* MIN and MAX of an integer type.
IntegerRange(type) ==
    IF type \in SignedTypes
    THEN [min |-> -(2^(IntegerBits(type) - 1)), max |-> 2^(IntegerBits(type) - 1) - 1]
    ELSE [min |-> 0, max |-> 2^IntegerBits(type) - 1]

\* Value::Literal: a typed value with its mode, "constant" or "private" (a
\* public operand takes the same arms as a private one).  A field element is
\* its residue, a group element its discrete logarithm, a scalar its residue;
\* an address, a boolean or a string is a number that names it.
Literal(type, value, mode) ==
    [kind |-> "literal", type |-> type, value |-> value, mode |-> mode]

\* Value::Definition(name, members)
Definition(name) == [kind |-> "definition", name |-> name]

\* The two's-complement value of x in an integer type.
wrapping(type, x) ==
    LET modulus == 2^IntegerBits(type)
        residue == x % modulus
    IN IF type \in SignedTypes /\ residue >= modulus \div 2 THEN residue - modulus ELSE residue

\* What a checked integer operation of the library does with a result out of
\* the range of the type when an operand is not a constant.  Its code is not
\* in the repository and no test has such operands, so the outcome is any of:
\* a halt, the low bits of the result stored, the nearest end of the range
\* stored.
out_of_range(type, value, unfixed, message) ==
    LET modulus == 2^IntegerBits(type)
        residue == value % modulus
        low_bits == IF type \in SignedTypes /\ residue >= modulus \div 2
                    THEN residue - modulus ELSE residue
        nearest == IF value < IntegerRange(type).min THEN IntegerRange(type).min
                   ELSE IntegerRange(type).max
    IN CASE unfixed = "halt" -> Panic(message, <<>>)
         [] unfixed = "wrapping" -> Ok(Literal(type, low_bits, "private"), <<>>)
         [] unfixed = "saturating" -> Ok(Literal(type, nearest, "private"), <<>>)

\* AddChecked::add_checked on two integers of one type.  The tests of add.rs
\* fix it for a sum in the range of the type (the sum, for operands of every
\* mode) and for two constants whose sum is out of range (a halt); on other
\* operands its outcome is `unfixed`.
add_checked(a, b, unfixed) ==
    LET sum == a.value + b.value
        constants == a.mode = "constant" /\ b.mode = "constant"
    IN IF IntegerRange(a.type).min <= sum /\ sum <= IntegerRange(a.type).max
       THEN Ok(Literal(a.type, sum, IF constants THEN "constant" ELSE "private"), <<>>)
       ELSE IF constants
       THEN Panic("Integer overflow on addition of two constants", <<>>)
       ELSE out_of_range(a.type, sum, unfixed, "Integer overflow on addition")

\* MulChecked::mul_checked on two integers of one type: as add_checked, for the
\* product, with the tests of mul.rs.
mul_checked(a, b, unfixed) ==
    LET product == a.value * b.value
        constants == a.mode = "constant" /\ b.mode = "constant"
    IN IF IntegerRange(a.type).min <= product /\ product <= IntegerRange(a.type).max
       THEN Ok(Literal(a.type, product, IF constants THEN "constant" ELSE "private"), <<>>)
       ELSE IF constants
       THEN Panic("Integer overflow on multiplication of two constants", <<>>)
       ELSE out_of_range(a.type, product, unfixed, "Integer overflow on multiplication")

\* An addition that keeps the low bits of every integer sum.
Add_operation_wrapping(first, second, unfixed) ==
    LET mode == IF first.mode = "constant" /\ second.mode = "constant"
                THEN "constant" ELSE "private"
    IN IF first.type # second.type THEN Panic("Invalid 'add' instruction", <<>>)
       ELSE IF first.type \in {"field", "group", "scalar"}
       THEN Ok(Literal(first.type, fadd(first.value, second.value), mode), <<>>)
       ELSE IF first.type \in IntegerTypes
       THEN Ok(Literal(first.type, wrapping(first.type, first.value + second.value), mode), <<>>)
       ELSE Panic("Invalid 'add' instruction", <<>>)

Add_operation(first, second, unfixed) ==
    LET mode == IF first.mode = "constant" /\ second.mode = "constant"
                THEN "constant" ELSE "private"
    IN IF first.type # second.type THEN Panic("Invalid 'add' instruction", <<>>)
       ELSE IF first.type \in {"field", "group", "scalar"}
       THEN Ok(Literal(first.type, fadd(first.value, second.value), mode), <<>>)
       ELSE IF first.type \in IntegerTypes THEN add_checked(first, second, unfixed)
       ELSE Panic("Invalid 'add' instruction", <<>>)

\* The match of Mul::evaluate on the two literals.
\* A multiplication that keeps the low bits of every integer product.
\* A multiplication that also takes two scalars.
Mul_operation_scalars(first, second, unfixed) ==
    LET mode == IF first.mode = "constant" /\ second.mode = "constant"
                THEN "constant" ELSE "private"
        types == <<first.type, second.type>>
    IN IF types = <<"field", "field">> \/ types = <<"scalar", "scalar">>
       THEN Ok(Literal(first.type, fmul(first.value, second.value), mode), <<>>)
       ELSE IF types = <<"group", "scalar">> \/ types = <<"scalar", "group">>
       THEN Ok(Literal("group", fmul(first.value, second.value), mode), <<>>)
       ELSE IF first.type = second.type /\ first.type \in IntegerTypes
       THEN mul_checked(first, second, unfixed)
       ELSE Panic("Invalid 'mul' instruction", <<>>)

Mul_operation_wrapping(first, second, unfixed) ==
    LET mode == IF first.mode = "constant" /\ second.mode = "constant"
                THEN "constant" ELSE "private"
        types == <<first.type, second.type>>
    IN IF types = <<"field", "field">>
       THEN Ok(Literal("field", fmul(first.value, second.value), mode), <<>>)
       ELSE IF types = <<"group", "scalar">> \/ types = <<"scalar", "group">>
       THEN Ok(Literal("group", fmul(first.value, second.value), mode), <<>>)
       ELSE IF first.type = second.type /\ first.type \in IntegerTypes
       THEN Ok(Literal(first.type, wrapping(first.type, first.value * second.value), mode), <<>>)
       ELSE Panic("Invalid 'mul' instruction", <<>>)

Mul_operation(first, second, unfixed) ==
    LET mode == IF first.mode = "constant" /\ second.mode = "constant"
                THEN "constant" ELSE "private"
        types == <<first.type, second.type>>
    IN IF types = <<"field", "field">>
       THEN Ok(Literal("field", fmul(first.value, second.value), mode), <<>>)
       ELSE IF types = <<"group", "scalar">> \/ types = <<"scalar", "group">>
       THEN Ok(Literal("group", fmul(first.value, second.value), mode), <<>>)
       ELSE IF first.type = second.type /\ first.type \in IntegerTypes
       THEN mul_checked(first, second, unfixed)
       ELSE Panic("Invalid 'mul' instruction", <<>>)

\* Add::evaluate: load the two operands, match on the literals, assign the
\* destination.  The result is Ok(the register file after the instruction) or
\* the halt that ended the evaluation.
Add_evaluate(operation, regs, unfixed) ==
    LET first == regs[operation.first][1]
        second == regs[operation.second][1]
        result == Add_operation(first, second, unfixed)
    IN IF first.kind = "definition"
       THEN Panic(first.name \o " is not a literal", <<"first">>)
       ELSE IF second.kind = "definition"
       THEN Panic(second.name \o " is not a literal", <<"first", "second">>)
       ELSE IF ~IsOk(result)
       THEN Panic(result.val, <<"first", "second", "operation">>)
       ELSE Ok([regs EXCEPT ![operation.destination] = <<result.val>>],
               <<"first", "second", "operation", "assign">>)

\* Mul::evaluate
Mul_evaluate(operation, regs, unfixed) ==
    LET first == regs[operation.first][1]
        second == regs[operation.second][1]
        result == Mul_operation(first, second, unfixed)
    IN IF first.kind = "definition"
       THEN Panic(first.name \o " is not a literal", <<"first">>)
       ELSE IF second.kind = "definition"
       THEN Panic(second.name \o " is not a literal", <<"first", "second">>)
       ELSE IF ~IsOk(result)
       THEN Panic(result.val, <<"first", "second", "operation">>)
       ELSE Ok([regs EXCEPT ![operation.destination] = <<result.val>>],
               <<"first", "second", "operation", "assign">>)

\* The values the operand registers are loaded with: literals of every type in
\* both modes, the integers at the ends of their range, and two definitions.
OperandValues ==
    LET values(type) ==
            IF type \in SignedTypes
            THEN {IntegerRange(type).min, -1, 2, IntegerRange(type).max}
            ELSE IF type \in IntegerTypes THEN {0, 1, 2, IntegerRange(type).max}
            ELSE IF type \in {"field", "group", "scalar"} THEN {1, 2, FieldModulus - 1}
            ELSE {1}
        types == IntegerTypes \cup {"field", "group", "scalar", "address", "boolean", "string"}
    IN {Definition("message"), Definition("token")}
       \cup UNION {{Literal(type, value, mode) : value \in values(type),
                                                mode \in {"constant", "private"}} :
                   type \in types}

\* A function with the registers r0, r1 and r2 defined, r0 and r1 assigned.
InitInstructions ==
    \E first \in OperandValues, second \in OperandValues :
        /\ puzzle = NoPuzzle
        /\ epoch_challenge = <<>>
        /\ prover_solutions = <<>>
        /\ coinbase_solution = <<>>
        /\ edit = NoEdit
        /\ call = Idle
        /\ registers = [r0 |-> <<first>>, r1 |-> <<second>>, r2 |-> <<>>]

\* "add r0 r1 into r2" is evaluated; a halt leaves the register file as it is.
EvaluateAdd(unfixed) ==
    /\ call.op = "idle"
    /\ registers.r2 = <<>>
    /\ LET operation == [first |-> "r0", second |-> "r1", destination |-> "r2"]
           result == Add_evaluate(operation, registers, unfixed)
       IN /\ call' = [op |-> "add", operation |-> operation, before |-> registers,
                      result |-> result]
          /\ registers' = IF IsOk(result) THEN result.val ELSE registers
    /\ UNCHANGED <<puzzle, epoch_challenge, prover_solutions, coinbase_solution, edit>>

\* "mul r0 r1 into r2" is evaluated.
EvaluateMul(unfixed) ==
    /\ call.op = "idle"
    /\ registers.r2 = <<>>
    /\ LET operation == [first |-> "r0", second |-> "r1", destination |-> "r2"]
           result == Mul_evaluate(operation, registers, unfixed)
       IN /\ call' = [op |-> "mul", operation |-> operation, before |-> registers,
                      result |-> result]
          /\ registers' = IF IsOk(result) THEN result.val ELSE registers
    /\ UNCHANGED <<puzzle, epoch_challenge, prover_solutions, coinbase_solution, edit>>

NextInstructions ==
    \/ \E unfixed \in {"halt", "wrapping", "saturating"} : EvaluateAdd(unfixed)
    \/ \E unfixed \in {"halt", "wrapping", "saturating"} : EvaluateMul(unfixed)
    \/ Return

\* The evaluation of one add or mul instruction on a register file.
SpecInstructions == InitInstructions /\ [][NextInstructions]_vars

(* ------------------------ claims C17 .. C19 ------------------------- *)

\* The operands that the evaluated instruction loaded.
first_operand == call.before.r0[1]
second_operand == call.before.r1[1]

\* Both operands are literals of one type, and the type is among `types`.
LiteralsOfOneType(types) ==
    /\ first_operand.kind = "literal"
    /\ second_operand.kind = "literal"
    /\ first_operand.type = second_operand.type
    /\ first_operand.type \in types

\* The instruction assigned a literal of this type and value to the
\* destination r2 and changed no other register.
Assigns(type, value) ==
    /\ IsOk(call.result)
    /\ registers.r2 # <<>>
    /\ registers.r2[1].kind = "literal"
    /\ registers.r2[1].type = type
    /\ registers.r2[1].value = value
    /\ registers.r0 = call.before.r0
    /\ registers.r1 = call.before.r1

\* The instruction halted with this message, and the register file is the one
\* it started from, its destination unassigned.
HaltsWith(message) ==
    /\ call.result.tag = "Panic"
    /\ call.result.val = message
    /\ registers = call.before
    /\ registers.r2 = <<>>

\* x lies in the range of the integer type.
InRange(type, x) ==
    IF type \in SignedTypes
    THEN -(2^(IntegerBits(type) - 1)) <= x /\ x < 2^(IntegerBits(type) - 1)
    ELSE 0 <= x /\ x < 2^IntegerBits(type)

\* The sum of the two operands: of residues for a field element, a group
\* element and a scalar, of integers for an integer type.
OperandSum ==
    IF first_operand.type \in IntegerTypes
    THEN first_operand.value + second_operand.value
    ELSE (first_operand.value + second_operand.value) % FieldModulus

BothConstant == first_operand.mode = "constant" /\ second_operand.mode = "constant"

\* The instruction halted, and the register file is the one it started from.
Halts ==
    /\ call.result.tag = "Panic"
    /\ registers = call.before
    /\ registers.r2 = <<>>

\* The instruction assigned a literal of this type to the destination r2 and
\* changed no other register.
AssignsOfType(type) ==
    /\ IsOk(call.result)
    /\ registers.r2 # <<>>
    /\ registers.r2[1].kind = "literal"
    /\ registers.r2[1].type = type
    /\ registers.r0 = call.before.r0
    /\ registers.r1 = call.before.r1

OperandProduct ==
    IF first_operand.type \in IntegerTypes
    THEN first_operand.value * second_operand.value
    ELSE (first_operand.value * second_operand.value) % FieldModulus

\* The types of the two operands, both literals.
OperandTypes == <<first_operand.type, second_operand.type>>

BothLiterals == first_operand.kind = "literal" /\ second_operand.kind = "literal"

SupportedPairs(opcode) ==
    IF opcode = "add"
    THEN {<<type, type>> : type \in IntegerTypes \cup {"field", "group", "scalar"}}
    ELSE {<<type, type>> : type \in IntegerTypes \cup {"field"}}
         \cup {<<"group", "scalar">>, <<"scalar", "group">>}

\* C19: add and mul halt with "Invalid '<opcode>' instruction" when the two
\* operand literals are not a supported pair, and with "<name> is not a
\* literal" when an operand register holds a definition (the first operand's
\* name when both do); whenever they halt, the destination register is not
\* assigned and the register file is the one before the instruction.
C19_HaltsLeaveRegisters ==
    call.op \in {"add", "mul"} =>
        /\ first_operand.kind = "definition"
               => HaltsWith(first_operand.name \o " is not a literal")
        /\ (first_operand.kind = "literal" /\ second_operand.kind = "definition")
               => HaltsWith(second_operand.name \o " is not a literal")
        /\ (BothLiterals /\ OperandTypes \notin SupportedPairs(call.op))
               => HaltsWith("Invalid '" \o call.op \o "' instruction")
        /\ call.result.tag # "Ok" => Halts

\* mul halted on an address and a definition, with the definition's name, and
\* left r2 unassigned.
C19_Witness ==
    /\ call.op = "mul"
    /\ first_operand.kind = "literal"
    /\ first_operand.type = "address"
    /\ second_operand = Definition("token")
    /\ HaltsWith("token is not a literal")
    /\ registers.r2 = <<>>

(* ----------------------------- claim C20 ---------------------------- *)

\* The partial solutions of the prover solutions whose proof is not hiding, in
\* the order of the list.
RECURSIVE RetainedPartials(_, _)
RetainedPartials(solutions, i) ==
    IF i > Len(solutions) THEN <<>>
    ELSE (IF Hiding(solutions[i].proof) THEN <<>> ELSE <<solutions[i].partial_solution>>)
         \o RetainedPartials(solutions, i + 1)

\* The sum of the polynomials, the i-th scaled by the i-th scalar.
RECURSIVE ScaledSum(_, _, _)
ScaledSum(polynomials, scalars, i) ==
    IF i > Len(polynomials) THEN <<>>
    ELSE poly_add(poly_scale(polynomials[i], scalars[i]),
                  ScaledSum(polynomials, scalars, i + 1))

\* The opening at the point of the product of the polynomial and the epoch
\* polynomial.
OpeningOfProduct(pk, polynomial, point) ==
    open_lagrange(pk.lagrange_basis_at_beta_g, pk.product_domain_elements,
                  mul_polynomials_in_evaluation_domain(
                      in_order_fft_with_pc(pk.fft_precomputation, polynomial),
                      epoch_challenge.epoch_polynomial_evaluations),
                  point,
                  fmul(evaluate(polynomial, point),
                       evaluate(epoch_challenge.epoch_polynomial, point)))

\* A Prover handle accumulated a list of accepted length.
AccumulatedByProver ==
    /\ call.op = "accumulate"
    /\ puzzle[call.self].variant = "Prover"
    /\ Len(prover_solutions) \in 1 .. MAX_PROVER_SOLUTIONS

\* C20: accumulate on a list with hiding proofs returns Ok; the partial
\* solutions of the returned coinbase solution are those of the prover
\* solutions with a non-hiding proof, in the order of the list, unchanged; and
\* its proof opens the sum of the retained prover polynomials, the i-th scaled
\* by the challenge of the i-th retained commitment, under every schedule of the
\* parallel filter and fold.
C20_RetainedInOrder ==
    AccumulatedByProver =>
        LET partial_solutions == RetainedPartials(prover_solutions, 1)
            points == hash_commitments(commitments_of(partial_solutions, 1))
            polynomials == prover_polynomials_of(epoch_challenge, partial_solutions, 1)
        IN /\ IsOk(call.result)
           /\ call.result.val.partial_solutions = partial_solutions
           /\ call.result.val.proof
                  = OpeningOfProduct(puzzle[call.self].key,
                                     ScaledSum(polynomials, points, 1),
                                     points[Len(points)])

\* accumulate kept the first and the third of three prover solutions, the
\* second being hiding, with its loops cut into three chunks summed last to
\* first.
C20_Witness ==
    /\ AccumulatedByProver
    /\ Len(prover_solutions) = 3
    /\ hiding_solutions = {2}
    /\ call.schedule = [cuts |-> {1, 2}, reversed |-> TRUE]
    /\ IsOk(call.result)
    /\ Len(call.result.val.partial_solutions) = 2
    /\ call.result.val.partial_solutions[1] # call.result.val.partial_solutions[2]

(* ----------------------------- claim C21 ---------------------------- *)

\* The prover solutions with the group element of every opening proof set to
\* w: their addresses, nonces and commitments, and which proofs are hiding, are
\* those of the list.
RECURSIVE WithProofs(_, _, _)
WithProofs(solutions, w, i) ==
    IF i > Len(solutions) THEN <<>>
    ELSE <<[solutions[i] EXCEPT !.proof.w = w]>> \o WithProofs(solutions, w, i + 1)

\* The opening proof of a prover solution verifies against its commitment.
ProverProofVerifies(vk, solution) ==
    LET partial == solution.partial_solution
        point == hash_commitment(partial.commitment)
        polynomial == prover_polynomial(epoch_challenge, partial.address, partial.nonce)
    IN KZG10_check(vk, partial.commitment, point,
                   fmul(evaluate(polynomial, point),
                        evaluate(epoch_challenge.epoch_polynomial, point)),
                   solution.proof)

\* C21: the result of accumulate is its result on the list whose opening proofs
\* all carry the same group element, so that two lists that agree on every
\* address, nonce and commitment and on which proofs are hiding give the same
\* result; and a Prover handle on a list of accepted length returns Ok whether
\* the individual proofs verify or not.
C21_ProofsDiscarded ==
    call.op = "accumulate" =>
        /\ call.result = accumulate(puzzle[call.self], epoch_challenge,
                                    WithProofs(prover_solutions, 0, 1), call.schedule)
        /\ AccumulatedByProver => IsOk(call.result)

\* accumulate returned a coinbase solution of two partial solutions for a list
\* whose first opening proof was replaced and does not verify, the second does.
C21_Witness ==
    /\ AccumulatedByProver
    /\ Len(prover_solutions) = 2
    /\ prover_solutions[1].proof.w = 1
    /\ ~ProverProofVerifies(verifying_key_of(puzzle[call.self]), prover_solutions[1])
    /\ ProverProofVerifies(verifying_key_of(puzzle[call.self]), prover_solutions[2])
    /\ IsOk(call.result)
    /\ Len(call.result.val.partial_solutions) = 2

(* ----------------------------- claim C22 ---------------------------- *)

\* The challenge vector squeezed for the partial solutions.
ChallengeVector(partial_solutions) == hash_commitments(commitments_of(partial_solutions, 1))

\* The sum of the prover polynomials of the partial solutions, the i-th scaled
\* by the i-th entry of the challenge vector.
ChallengedSum(partial_solutions) ==
    ScaledSum(prover_polynomials_of(epoch_challenge, partial_solutions, 1),
              ChallengeVector(partial_solutions), 1)

\* accumulate with a transcript hash that squeezes k + 1 + excess scalars for
\* the k commitments retained.
AccumulateSqueezing(self, excess) ==
    /\ call.op = "idle"
    /\ coinbase_solution = <<>>
    /\ \E schedule \in Schedules(Len(prover_solutions)) :
           LET unsqueezed == accumulate(puzzle[self], epoch_challenge, prover_solutions, schedule)
               retained == retain_chunks(epoch_challenge, prover_solutions,
                                         chunks(Len(prover_solutions), schedule), 1)
               partial_solutions == column(retained, 2, 1)
               count == Len(partial_solutions) + 1 + excess
               result ==
                   IF Ran(unsqueezed, "challenges")
                   THEN accumulate_challenged(
                            puzzle[self].key, epoch_challenge, column(retained, 1, 1),
                            partial_solutions,
                            squeeze_from(absorb_commitments(
                                             3, commitments_of(partial_solutions, 1), 1),
                                         0, count),
                            schedule)
                   ELSE unsqueezed
           IN /\ call' = [op |-> "accumulate", self |-> self, address |-> 0, nonce |-> 0,
                          coinbase_target |-> 0, proof_target |-> 0, schedule |-> schedule,
                          squeezed |-> count, result |-> result]
              /\ coinbase_solution' = IF IsOk(result) THEN <<result.val>> ELSE <<>>
    /\ UNCHANGED <<registers, puzzle, epoch_challenge, prover_solutions, edit>>

\* verify, with both targets 0, with a transcript hash that squeezes
\* k + 1 + excess scalars for the k commitments of the coinbase solution.
VerifySqueezing(self, excess) ==
    /\ call.op = "idle"
    /\ coinbase_solution # <<>>
    /\ \E schedule \in VerifySchedules(puzzle[self], coinbase_solution[1], epoch_challenge, 0, 0) :
           LET unsqueezed == verify(puzzle[self], coinbase_solution[1], epoch_challenge,
                                    0, 0, schedule)
               count == Len(held_partials) + 1 + excess
               result ==
                   IF Ran(unsqueezed, "challenges")
                   THEN verify_challenged(
                            puzzle[self], coinbase_solution[1], epoch_challenge, 0,
                            squeeze_from(absorb_commitments(
                                             3, commitments_of(held_partials, 1), 1),
                                         0, count),
                            schedule)
                   ELSE unsqueezed
           IN call' = [op |-> "verify", self |-> self, address |-> 0, nonce |-> 0,
                       coinbase_target |-> 0, proof_target |-> 0, schedule |-> schedule,
                       squeezed |-> count, result |-> result]
    /\ UNCHANGED <<registers, puzzle, epoch_challenge, prover_solutions, coinbase_solution, edit>>

NextChallenges ==
    \/ \E self \in Handles, address \in Addresses, nonce \in Nonces :
           Prove(self, address, nonce)
    \/ Collect
    \/ Return
    \/ \E self \in Handles, excess \in {-1, 0, 1} : AccumulateSqueezing(self, excess)
    \/ \E self \in Handles, excess \in {-1, 0, 1} : VerifySqueezing(self, excess)

\* Proving, accumulating and verifying with a transcript hash that squeezes one
\* scalar less, as many as, or one more than one per commitment and one for
\* the accumulator point.
SpecChallenges == Init /\ [][NextChallenges]_vars

\* C22: the challenge vector of k commitments has k + 1 entries; when the
\* vector squeezed in accumulate or in verify has another number of entries,
\* the call returns the error "Invalid number of challenge points", accumulate
\* leaves no coinbase solution and verify gives no verdict; otherwise that
\* error is not returned, accumulate opens, at the last entry, the sum of the k
\* prover polynomials scaled one to one by the first k entries, and verify
\* checks the proof at the last entry against the commitments and the
\* evaluations scaled by the first k entries.
C22_ChallengeVector ==
    /\ (call.op = "accumulate" /\ Ran(call.result, "challenges")) =>
           LET partial_solutions == RetainedPartials(prover_solutions, 1)
               points == ChallengeVector(partial_solutions)
               k == Len(partial_solutions)
           IN /\ Len(points) = k + 1
              /\ call.squeezed # k + 1 =>
                     /\ IsErrWith(call.result, "Invalid number of challenge points")
                     /\ coinbase_solution = <<>>
              /\ call.squeezed = k + 1 =>
                     /\ ~IsErrWith(call.result, "Invalid number of challenge points")
                     /\ IsOk(call.result) =>
                            call.result.val.proof
                                = OpeningOfProduct(puzzle[call.self].key,
                                                   ChallengedSum(partial_solutions),
                                                   points[k + 1])
    /\ (call.op = "verify" /\ Ran(call.result, "challenges")) =>
           LET points == ChallengeVector(held_partials)
               k == Len(held_partials)
           IN /\ Len(points) = k + 1
              /\ call.squeezed # k + 1 =>
                     IsErrWith(call.result, "Invalid number of challenge points")
              /\ call.squeezed = k + 1 =>
                     /\ IsOk(call.result)
                     /\ call.result.val
                         = KZG10_check(verifying_key_of(puzzle[call.self]),
                                       msm(commitments_of(held_partials, 1),
                                           SubSeq(points, 1, k)),
                                       points[k + 1],
                                       fmul(evaluate(ChallengedSum(held_partials), points[k + 1]),
                                            evaluate(epoch_challenge.epoch_polynomial,
                                                     points[k + 1])),
                                       coinbase_solution[1].proof)

\* verify squeezed two challenge points for the two partial solutions of a
\* coinbase solution as it was accumulated, and returned the error without a
\* verdict.
C22_Witness ==
    /\ call.op = "verify"
    /\ Len(held_partials) = 2
    /\ call.squeezed = 2
    /\ IsErrWith(call.result, "Invalid number of challenge points")
    /\ LastStage(call.result) = "challenges"

(* ----------------------------- claim C23 ---------------------------- *)

\* The list-level checks of verify pass on the coinbase solution held: it is
\* not empty, not oversize, its proof is not hiding, and its targets sum to
\* the coinbase target or more.
ListChecksPass ==
    /\ Len(held_partials) \in 1 .. MAX_PROVER_SOLUTIONS
    /\ ~Hiding(coinbase_solution[1].proof)
    /\ TargetsDefined(held_partials)
    /\ SumOfTargets(held_partials, 1) >= call.coinbase_target

\* Some partial solution of the coinbase solution held is below the proof target.
SomeBelowProofTarget ==
    \E i \in 1 .. Len(held_partials) :
        U64_MAX \div commitment_hash(held_partials[i].commitment) < call.proof_target

\* C23: verify reports the error of the first failing check in the order empty
\* list, oversize list, hiding proof, cumulative coinbase target, proof target
\* of a partial solution (the targets being defined); a coinbase solution below
\* the coinbase target with a partial solution below the proof target gets the
\* error of the coinbase target; a prover polynomial is computed only after the
\* list-level checks pass, and a challenge or the pairing only after every
\* check passes.
C23_CheckOrder ==
    call.op = "verify" =>
        /\ Len(held_partials) = 0 =>
               IsErrWith(call.result,
                         "The coinbase solution does not contain any partial solutions")
        /\ Len(held_partials) > MAX_PROVER_SOLUTIONS =>
               IsErrWith(call.result, TooManyPartialSolutions(Len(held_partials)))
        /\ (Len(held_partials) \in 1 .. MAX_PROVER_SOLUTIONS
            /\ Hiding(coinbase_solution[1].proof)) =>
               IsErrWith(call.result, "The coinbase proof must be non-hiding")
        /\ (Len(held_partials) \in 1 .. MAX_PROVER_SOLUTIONS
            /\ ~Hiding(coinbase_solution[1].proof)
            /\ TargetsDefined(held_partials)
            /\ SumOfTargets(held_partials, 1) < call.coinbase_target) =>
               IsErrWith(call.result, "The coinbase proof does not meet the coinbase target")
        /\ (ListChecksPass /\ SomeBelowProofTarget) =>
               IsErrWith(call.result,
                         "Prover puzzle does not meet the proof target requirements.")
        /\ Ran(call.result, "polynomial") => ListChecksPass
        /\ (Ran(call.result, "challenges") \/ Ran(call.result, "evaluation")
            \/ Ran(call.result, "pairing")) => (ListChecksPass /\ ~SomeBelowProofTarget)

\* verify returned the error of the coinbase target for a coinbase solution
\* that is below the coinbase target and has a partial solution below the
\* proof target, and computed no prover polynomial.
C23_Witness ==
    /\ call.op = "verify"
    /\ Len(held_partials) \in 2 .. MAX_PROVER_SOLUTIONS
    /\ ~Hiding(coinbase_solution[1].proof)
    /\ TargetsDefined(held_partials)
    /\ SumOfTargets(held_partials, 1) < call.coinbase_target
    /\ SomeBelowProofTarget
    /\ IsErrWith(call.result, "The coinbase proof does not meet the coinbase target")
    /\ ~Ran(call.result, "polynomial")

(* ----------------------------- claim C24 ---------------------------- *)

\* C24: accumulate on a Verifier handle returns the error of the empty list for
\* an empty list and the error of the oversize list for a list of more than
\* MAX_PROVER_SOLUTIONS prover solutions; the error of the role is returned
\* for the Verifier handle on lists of 1 to MAX_PROVER_SOLUTIONS prover
\* solutions, and for no other call.
C24_SizeBeforeRole ==
    call.op = "accumulate" =>
        /\ (puzzle[call.self].variant = "Verifier" /\ Len(prover_solutions) = 0) =>
               IsErrWith(call.result, "Cannot accumulate an empty list of prover solutions.")
        /\ (puzzle[call.self].variant = "Verifier"
            /\ Len(prover_solutions) > MAX_PROVER_SOLUTIONS) =>
               IsErrWith(call.result, TooManyProverSolutions(Len(prover_solutions)))
        /\ IsErrWith(call.result, "Cannot accumulate the coinbase puzzle with a verifier")
               <=> /\ puzzle[call.self].variant = "Verifier"
                   /\ Len(prover_solutions) \in 1 .. MAX_PROVER_SOLUTIONS

\* The Verifier handle was given MAX_PROVER_SOLUTIONS + 1 prover solutions and
\* returned the error of the oversize list.
C24_Witness ==
    /\ call.op = "accumulate"
    /\ puzzle[call.self].variant = "Verifier"
    /\ Len(prover_solutions) = MAX_PROVER_SOLUTIONS + 1
    /\ IsErrWith(call.result, TooManyProverSolutions(MAX_PROVER_SOLUTIONS + 1))
    /\ LastStage(call.result) = "size"

(* ------------------ the difficulty gate of prove_abm ---------------- *)

\* prove_abm alone, on nonces that include one whose commitment has the hash 0
\* (address 1, nonce 18, in the epoch 0 of degree 3).
NextGate ==
    \/ \E self \in Handles, proof_target \in GateTargets, address \in Addresses,
          nonce \in {0, 1, 18} :
           ProveAbm(self, proof_target, address, nonce)
    \/ Return

SpecGate == Init /\ [][NextGate]_vars

\* C25: prove_abm on a Prover handle ends in Ok or in the error of the
\* difficulty gate, whatever the hash of the commitment, 0 included; it never
\* aborts on the division u64::MAX / hash.
C25_GateTotal ==
    (call.op = "prove_abm" /\ puzzle[call.self].variant = "Prover") =>
        \/ IsOk(call.result)
        \/ IsErrWith(call.result, "difficult not met")

====
